---------------------------- MODULE Spec2Model ----------------------------
(***************************************************************************)
(* Verification model of the WhatsApp-web client library:                  *)
(*   - the binary node codec      (src/src/proto/binary-writer.js,         *)
(*                                 src/src/proto/binary-reader.js)         *)
(*   - the message ratchet        (src/src/crypto/signal-impl.js)          *)
(*   - the MAC-protected ciphers  (src/unnamed/part_001 CryptoHandler,     *)
(*                                 src/src/media/index.js)                 *)
(*   - the Noise handshake        (src/src/crypto/noise.js)                *)
(*   - the outbound rate-limit queue (src/src/core/production-core.js)     *)
(*   - the connection lifecycle   (src/unnamed/part_003 WebSocketClient,   *)
(*                                 src/unnamed/part_005 WhatsAppCore)      *)
(*   - session resume at start   (src/src/core/production-core.js)         *)
(*   - the session store         (src/src/session/index.js)                *)
(*     and logout                (src/unnamed/part_005,                    *)
(*                                src/final-production-client.js)          *)
(*   - parts of the codec taken alone: reading one frame, packed strings,  *)
(*     length prefixes           (binary-reader.js, binary-writer.js)      *)
(*   - inbound frames            (src/unnamed/part_006 decode and the      *)
(*                                _onWebSocketMessage of both cores)       *)
(*   - the heartbeat             (src/unnamed/part_003 WebSocketClient)    *)
(*   - timers and destroy        (src/src/core/production-core.js,         *)
(*                                src/final-production-client.js)          *)
(*   - the event queue of the client wrapper                               *)
(*                               (src/src/production-client.js)            *)
(*   - logout and the close after it (src/final-production-client.js,      *)
(*                                src/unnamed/part_005)                    *)
(*   - the pre-key store         (src/unnamed/part_002 KeyManager)         *)
(*                                                                         *)
(* Each component has its own variables and its own specification; the     *)
(* variables of the other components stay at their initial value.          *)
(*                                                                         *)
(* Conventions.  A string is the sequence of its UTF-8 bytes; the strings  *)
(* of the model are ASCII, so Buffer.from(s,'utf8') and toString('utf8')   *)
(* are byte-for-byte.  JavaScript null is the value Null.  An exception is *)
(* the value Throw (writer) or a result record with ok = FALSE (reader).   *)
(***************************************************************************)
EXTENDS Integers, Sequences, FiniteSets, TLC

VARIABLES
    \* ---- binary codec
    node,        \* the Node handed to whatsappWriteBinary
    wire,        \* the bytes it produced (or Throw)
    decoded,     \* the result of whatsappReadBinary on wire
    codecPc,     \* "build" | "encoded" | "decoded"
    strIn,       \* the string handed to writeString (Null: a node job)
    strIsValue,  \* the isValue argument of that writeString call
    \* ---- message ratchet
    senderState,    \* the sessionState object of the encrypting party
    receiverState,  \* the sessionState object of the decrypting party
    channel,        \* the encrypted messages in flight
    sentLog,        \* history: message, plaintext and chain key of each encrypt
    receivedLog,    \* history: message, result and chain key of each decrypt
    \* ---- MAC-protected ciphers
    macBlob,     \* iv || ciphertext || mac as it reaches decrypt
    macSealed,   \* history: the same bytes as encrypt returned them
    macPlain,    \* history: the plaintext that was encrypted
    macKind,     \* "none" | "session" | "media": which cipher produced it
    macOut,      \* what decrypt returned (NoBuffer: not called yet)
    \* ---- Noise handshake
    hs,                   \* this.handshakeState (NoBuffer: null)
    isInitialized,        \* this.isInitialized
    isHandshakeComplete,  \* this.isHandshakeComplete
    noiseOut,             \* what the last call returned (Throw: it threw)
    authFailed,           \* history: an AEAD check failed on this handshake state
    noiseCalls,           \* number of calls made
    splitRan,             \* history: split() was called on this handshake state
    lastPrim,             \* history: the direct mixKey / encryptAndHash /
                          \* decryptAndHash call made last, if it was the last call
    \* ---- outbound rate-limit queue
    isReady,            \* this.isReady
    coreState,          \* this.state
    rateLimitQueue,     \* this.rateLimitQueue
    lastMessageTime,    \* this.lastMessageTime
    clock,              \* Date.now()
    rateLimitInterval,  \* the setInterval timer is active
    sessionKeys,        \* crypto.sessionKeys is set
    wsConnected,        \* the websocket is open
    outcome,            \* per sendMessage call: "pending" | "resolved" | "rejected"
    socketLog,          \* history: the items handed to ws.send
    dequeueLog,         \* history: item and Date.now() of each dequeue
    inflight,           \* items whose processing awaits a continuation
    \* ---- connection lifecycle
    socks,                \* the WebSocket objects with an event outstanding
    wsRef,                \* this.ws of the client (0: null)
    isConnected,          \* this.isConnected
    reconnectAttempts,    \* this.reconnectAttempts
    currentEndpointIndex, \* this.currentEndpointIndex
    reconnectTimers,      \* pending timers of _scheduleReconnection
    lastDelay,            \* history: attempt number and delay of the last one set
    gaveUp,               \* history: the client emitted 'reconnect_failed'
    state,                \* this.state of WhatsAppCore
    closeTimers,          \* pending 5000 ms timers of _onWebSocketClose
    retryTimers,          \* pending 10000 ms timers of _attemptReconnection
    initResult,           \* promise of initialize(): none, pending, resolved, rejected
    connectFailures,      \* history: failed sockets of the connect() of initialize()
    destroyCalled,        \* history: destroy() was called
    did,                  \* history: the effects of the last step
    \* ---- session resume (ProductionWhatsAppCore.initialize)
    rsPc,                 \* the await initialize() has reached
    rsAuthMethod,         \* options.authMethod
    rsSession,            \* what session.load() found
    rsWsOpen,             \* the websocket is connected
    rsState,              \* this.state
    rsInfo,               \* this.info is set
    rsIsReady,            \* this.isReady
    rsResumeSent,         \* a resume message awaits its answer
    rsAuthFlow,           \* the authentication flow in progress (none, qr, pairing)
    rsFreshCalled,        \* history: _startFreshAuth was called
    rsResumeFailure,      \* history: the step at which the resume failed
    rsResult,             \* promise of initialize(): none, pending, resolved, rejected
    \* ---- session store
    files,                \* content of the session file and of the temporary file
    storeClock,           \* Date.now(), in seconds
    sessionData,          \* this.sessionData (NoRec: null)
    isLoaded,             \* this.isLoaded
    encryptionKey,        \* this.encryptionKey
    ops,                  \* per call slot: the call in progress and its await
    lastLoad,             \* history: what the last load() read and returned
    saveCtx,              \* history: session file before the last save() and what it writes
    crashes,              \* number of times the process died
    clearLog,             \* history: the clear() calls since the last save()
    logoutLog,            \* history: the logout() that has just returned
    \* ---- parts of the codec
    primJob,              \* what the caller does: frame | pack | chars | length
    primBytes,            \* the bytes or the string handed in
    primLen,              \* the length of the Buffer handed in (job length)
    primIsValue,          \* the isValue argument of writeString
    primOut,              \* the bytes the writer appended to this.data
    primThrew,            \* the write threw
    primRead,             \* what the reader returned for the bytes
    primPc,               \* in | written | read
    \* ---- inbound frames
    inCore,               \* which core receives: production | part_005 (none: no core)
    inState,              \* this.state
    inReady,              \* this.isReady
    inLog,                \* history: one record for every frame handled
    \* ---- heartbeat
    bSocks,               \* the sockets created: none | connecting | open | terminated | closed
    bWs,                  \* this.ws (0: null)
    bConnected,           \* this.isConnected
    bPingInterval,        \* this.pingInterval, a timer handle (0: null)
    bPongTimeout,         \* this.pongTimeout, a timer handle (0: null)
    bTimers,              \* the timers that are set
    bHandles,             \* number of timer handles given out
    bClock,               \* the time
    bPings,               \* history: the pings sent and when their pong came (-1: not yet)
    bTerms,               \* history: the terminate() calls of the heartbeat
    bReconnects,          \* reconnect timers of _scheduleReconnection pending
    \* ---- timers and destroy
    tmClient,             \* which client: core | final (none: no client)
    tmArmed,              \* the timers that are set
    tmSock,               \* the socket
    tmDestroyed,          \* destroy() has returned
    tmFired,              \* history: the timers that fired after destroy()
    \* ---- event queue of the client wrapper
    rpReady,              \* isClientReady()
    eventQueue,           \* this.eventQueue
    rpEntries,            \* the promises _queueEvent returned
    rpCore,               \* the promises core.sendMessage returned
    rpLoops,              \* the calls of _processEventQueue that have not returned
    rpReadyCount,         \* number of READY events
    \* ---- logout
    loClient,             \* which client
    loState,              \* this.state
    loIsReady,            \* this.isReady
    loWs,                 \* the socket
    loThen,               \* what follows the open of the socket
    loTimers,             \* timers armed
    loAttempts,           \* this.reconnectAttempts
    loLoggedOut,          \* logout() logged out and no initialize() since
    loScheduled,          \* a close armed a reconnect timer after logout()
    \* ---- pre-key store
    preKeys,              \* key ids of this.preKeys
    preKeysFile,          \* prekeys.json
    pkWrites              \* the fs.writeFile calls _savePreKeys started

codecVars == <<node, wire, decoded, codecPc, strIn, strIsValue>>
ratchetVars == <<senderState, receiverState, channel, sentLog, receivedLog>>
macVars == <<macBlob, macSealed, macPlain, macKind, macOut>>
noiseVars == <<hs, isInitialized, isHandshakeComplete, noiseOut, authFailed,
               noiseCalls, lastPrim, splitRan>>
queueVars == <<isReady, coreState, rateLimitQueue, lastMessageTime, clock,
               rateLimitInterval, sessionKeys, wsConnected, outcome,
               socketLog, dequeueLog, inflight>>

connVars == <<socks, wsRef, isConnected, reconnectAttempts,
              currentEndpointIndex, reconnectTimers,
              lastDelay, gaveUp, state, closeTimers,
              retryTimers, initResult, connectFailures,
              destroyCalled, did>>

resumeVars == <<rsPc, rsAuthMethod, rsSession, rsWsOpen, rsState, rsInfo,
                rsIsReady, rsResumeSent, rsAuthFlow,
                rsFreshCalled, rsResumeFailure, rsResult>>

storeVars == <<files, storeClock, sessionData, isLoaded, encryptionKey,
               ops, lastLoad, saveCtx, crashes, clearLog, logoutLog>>

primVars == <<primJob, primBytes, primLen, primIsValue, primOut,
              primThrew, primRead, primPc>>

inboundVars == <<inCore, inState, inReady, inLog>>

beatVars == <<bSocks, bWs, bConnected, bPingInterval, bPongTimeout,
              bTimers, bHandles, bClock, bPings, bTerms,
              bReconnects>>

timersVars == <<tmClient, tmArmed, tmSock, tmDestroyed, tmFired>>

replayVars == <<rpReady, eventQueue, rpEntries, rpCore, rpLoops,
                rpReadyCount>>

logoutVars == <<loClient, loState, loIsReady, loWs, loThen, loTimers,
                loAttempts, loLoggedOut, loScheduled>>

preKeysVars == <<preKeys, preKeysFile, pkWrites>>

vars == <<codecVars, ratchetVars, macVars, noiseVars, queueVars,
         connVars,
         resumeVars,
         storeVars,
         primVars,
         inboundVars,
         beatVars,
         timersVars,
         replayVars,
         logoutVars,
         preKeysVars>>

Null == <<-1>>
Throw == <<-2>>
NoBuffer == <<-3>>     \* null where a Buffer or an object is expected

---------------------------------------------------------------------------
(* src/src/auth/pairing-code.js: WATags and WASingleByteTokens             *)

WATags ==
    [ LIST_EMPTY |-> 0, STREAM_END |-> 2,
      DICTIONARY_0 |-> 236, DICTIONARY_1 |-> 237,
      DICTIONARY_2 |-> 238, DICTIONARY_3 |-> 239,
      LIST_8 |-> 248, LIST_16 |-> 249, JID_PAIR |-> 250, HEX_8 |-> 251,
      BINARY_8 |-> 252, BINARY_20 |-> 253, BINARY_32 |-> 254,
      NIBBLE_8 |-> 255, SINGLE_BYTE_MAX |-> 256, PACKED_MAX |-> 254 ]

WASingleByteTokens ==
  <<
    Null,  \* 0: null
    Null,  \* 1: null
    Null,  \* 2: null
    <<50,48,48>>,  \* 3: "200"
    <<52,48,48>>,  \* 4: "400"
    <<52,48,52>>,  \* 5: "404"
    <<53,48,48>>,  \* 6: "500"
    <<53,48,49>>,  \* 7: "501"
    <<53,48,50>>,  \* 8: "502"
    <<97,99,116,105,111,110>>,  \* 9: "action"
    <<97,100,100>>,  \* 10: "add"
    <<97,102,116,101,114>>,  \* 11: "after"
    <<97,114,99,104,105,118,101>>,  \* 12: "archive"
    <<97,117,116,104,111,114>>,  \* 13: "author"
    <<97,118,97,105,108,97,98,108,101>>,  \* 14: "available"
    <<98,97,116,116,101,114,121>>,  \* 15: "battery"
    <<98,101,102,111,114,101>>,  \* 16: "before"
    <<98,111,100,121>>,  \* 17: "body"
    <<98,114,111,97,100,99,97,115,116>>,  \* 18: "broadcast"
    <<99,104,97,116>>,  \* 19: "chat"
    <<99,108,101,97,114>>,  \* 20: "clear"
    <<99,111,100,101>>,  \* 21: "code"
    <<99,111,109,112,111,115,105,110,103>>,  \* 22: "composing"
    <<99,111,110,116,97,99,116,115>>,  \* 23: "contacts"
    <<99,111,117,110,116>>,  \* 24: "count"
    <<99,114,101,97,116,101>>,  \* 25: "create"
    <<100,101,98,117,103>>,  \* 26: "debug"
    <<100,101,108,101,116,101>>,  \* 27: "delete"
    <<100,101,109,111,116,101>>,  \* 28: "demote"
    <<100,117,112,108,105,99,97,116,101>>,  \* 29: "duplicate"
    <<101,110,99,111,100,105,110,103>>,  \* 30: "encoding"
    <<101,114,114,111,114>>,  \* 31: "error"
    <<102,97,108,115,101>>,  \* 32: "false"
    <<102,105,108,101,104,97,115,104>>,  \* 33: "filehash"
    <<102,114,111,109>>,  \* 34: "from"
    <<103,46,117,115>>,  \* 35: "g.us"
    <<103,114,111,117,112>>,  \* 36: "group"
    <<103,114,111,117,112,115,95,118,50>>,  \* 37: "groups_v2"
    <<104,101,105,103,104,116>>,  \* 38: "height"
    <<105,100>>,  \* 39: "id"
    <<105,109,97,103,101>>,  \* 40: "image"
    <<105,110>>,  \* 41: "in"
    <<105,110,100,101,120>>,  \* 42: "index"
    <<105,110,118,105,115>>,  \* 43: "invis"
    <<105,116,101,109>>,  \* 44: "item"
    <<106,105,100>>,  \* 45: "jid"
    <<107,105,110,100>>,  \* 46: "kind"
    <<108,97,115,116>>,  \* 47: "last"
    <<108,101,97,118,101>>,  \* 48: "leave"
    <<108,105,118,101>>,  \* 49: "live"
    <<108,111,103>>,  \* 50: "log"
    <<109,101,100,105,97>>,  \* 51: "media"
    <<109,101,115,115,97,103,101>>,  \* 52: "message"
    <<109,105,109,101,116,121,112,101>>,  \* 53: "mimetype"
    <<109,105,115,115,105,110,103>>,  \* 54: "missing"
    <<109,111,100,105,102,121>>,  \* 55: "modify"
    <<110,97,109,101>>,  \* 56: "name"
    <<110,111,116,105,102,105,99,97,116,105,111,110>>,  \* 57: "notification"
    <<110,111,116,105,102,121>>,  \* 58: "notify"
    <<111,117,116>>,  \* 59: "out"
    <<111,119,110,101,114>>,  \* 60: "owner"
    <<112,97,114,116,105,99,105,112,97,110,116>>,  \* 61: "participant"
    <<112,97,117,115,101,100>>,  \* 62: "paused"
    <<112,105,99,116,117,114,101>>,  \* 63: "picture"
    <<112,108,97,121,101,100>>,  \* 64: "played"
    <<112,114,101,115,101,110,99,101>>,  \* 65: "presence"
    <<112,114,101,118,105,101,119>>,  \* 66: "preview"
    <<112,114,111,109,111,116,101>>,  \* 67: "promote"
    <<113,117,101,114,121>>,  \* 68: "query"
    <<114,97,119>>,  \* 69: "raw"
    <<114,101,97,100>>,  \* 70: "read"
    <<114,101,99,101,105,112,116>>,  \* 71: "receipt"
    <<114,101,99,101,105,118,101,100>>,  \* 72: "received"
    <<114,101,99,105,112,105,101,110,116>>,  \* 73: "recipient"
    <<114,101,99,111,114,100,105,110,103>>,  \* 74: "recording"
    <<114,101,108,97,121>>,  \* 75: "relay"
    <<114,101,109,111,118,101>>,  \* 76: "remove"
    <<114,101,115,112,111,110,115,101>>,  \* 77: "response"
    <<114,101,115,117,109,101>>,  \* 78: "resume"
    <<114,101,116,114,121>>,  \* 79: "retry"
    <<115,46,119,104,97,116,115,97,112,112,46,110,101,116>>,  \* 80: "s.whatsapp.net"
    <<115,101,99,111,110,100,115>>,  \* 81: "seconds"
    <<115,101,116>>,  \* 82: "set"
    <<115,105,122,101>>,  \* 83: "size"
    <<115,116,97,116,117,115>>,  \* 84: "status"
    <<115,117,98,106,101,99,116>>,  \* 85: "subject"
    <<115,117,98,115,99,114,105,98,101>>,  \* 86: "subscribe"
    <<116>>,  \* 87: "t"
    <<116,101,120,116>>,  \* 88: "text"
    <<116,111>>,  \* 89: "to"
    <<116,114,117,101>>,  \* 90: "true"
    <<116,121,112,101>>,  \* 91: "type"
    <<117,110,97,114,99,104,105,118,101>>,  \* 92: "unarchive"
    <<117,110,97,118,97,105,108,97,98,108,101>>,  \* 93: "unavailable"
    <<117,114,108>>,  \* 94: "url"
    <<117,115,101,114>>,  \* 95: "user"
    <<118,97,108,117,101>>,  \* 96: "value"
    <<119,101,98>>,  \* 97: "web"
    <<119,105,100,116,104>>,  \* 98: "width"
    <<109,117,116,101>>,  \* 99: "mute"
    <<114,101,97,100,95,111,110,108,121>>,  \* 100: "read_only"
    <<97,100,109,105,110>>,  \* 101: "admin"
    <<99,114,101,97,116,111,114>>,  \* 102: "creator"
    <<115,104,111,114,116>>,  \* 103: "short"
    <<117,112,100,97,116,101>>,  \* 104: "update"
    <<112,111,119,101,114,115,97,118,101>>,  \* 105: "powersave"
    <<99,104,101,99,107,115,117,109>>,  \* 106: "checksum"
    <<101,112,111,99,104>>,  \* 107: "epoch"
    <<98,108,111,99,107>>,  \* 108: "block"
    <<112,114,101,118,105,111,117,115>>,  \* 109: "previous"
    <<52,48,57>>,  \* 110: "409"
    <<114,101,112,108,97,99,101,100>>,  \* 111: "replaced"
    <<114,101,97,115,111,110>>,  \* 112: "reason"
    <<115,112,97,109>>,  \* 113: "spam"
    <<109,111,100,105,102,121,95,116,97,103>>,  \* 114: "modify_tag"
    <<109,101,115,115,97,103,101,95,105,110,102,111>>,  \* 115: "message_info"
    <<100,101,108,105,118,101,114,121>>,  \* 116: "delivery"
    <<101,109,111,106,105>>,  \* 117: "emoji"
    <<116,105,116,108,101>>,  \* 118: "title"
    <<100,101,115,99,114,105,112,116,105,111,110>>,  \* 119: "description"
    <<99,97,110,111,110,105,99,97,108,45,117,114,108>>,  \* 120: "canonical-url"
    <<109,97,116,99,104,101,100,45,116,101,120,116>>,  \* 121: "matched-text"
    <<115,116,97,114>>,  \* 122: "star"
    <<117,110,115,116,97,114>>,  \* 123: "unstar"
    <<109,101,100,105,97,95,107,101,121>>,  \* 124: "media_key"
    <<102,105,108,101,110,97,109,101>>,  \* 125: "filename"
    <<105,100,101,110,116,105,116,121>>,  \* 126: "identity"
    <<117,110,114,101,97,100>>,  \* 127: "unread"
    <<112,97,103,101>>,  \* 128: "page"
    <<112,97,103,101,95,99,111,117,110,116>>,  \* 129: "page_count"
    <<115,101,97,114,99,104>>,  \* 130: "search"
    <<109,101,100,105,97,95,109,101,115,115,97,103,101>>,  \* 131: "media_message"
    <<115,101,99,117,114,105,116,121>>,  \* 132: "security"
    <<99,97,108,108,95,108,111,103>>,  \* 133: "call_log"
    <<112,114,111,102,105,108,101>>,  \* 134: "profile"
    <<99,105,112,104,101,114,116,101,120,116>>,  \* 135: "ciphertext"
    <<105,110,118,105,116,101>>,  \* 136: "invite"
    <<103,105,102>>,  \* 137: "gif"
    <<118,99,97,114,100>>,  \* 138: "vcard"
    <<102,114,101,113,117,101,110,116>>,  \* 139: "frequent"
    <<112,114,105,118,97,99,121>>,  \* 140: "privacy"
    <<98,108,97,99,107,108,105,115,116>>,  \* 141: "blacklist"
    <<119,104,105,116,101,108,105,115,116>>,  \* 142: "whitelist"
    <<118,101,114,105,102,121>>,  \* 143: "verify"
    <<108,111,99,97,116,105,111,110>>,  \* 144: "location"
    <<100,111,99,117,109,101,110,116>>,  \* 145: "document"
    <<101,108,97,112,115,101,100>>,  \* 146: "elapsed"
    <<114,101,118,111,107,101,95,105,110,118,105,116,101>>,  \* 147: "revoke_invite"
    <<101,120,112,105,114,97,116,105,111,110>>,  \* 148: "expiration"
    <<117,110,115,117,98,115,99,114,105,98,101>>,  \* 149: "unsubscribe"
    <<100,105,115,97,98,108,101>>,  \* 150: "disable"
    <<118,110,97,109,101>>,  \* 151: "vname"
    <<111,108,100,95,106,105,100>>,  \* 152: "old_jid"
    <<110,101,119,95,106,105,100>>,  \* 153: "new_jid"
    <<97,110,110,111,117,110,99,101,109,101,110,116>>,  \* 154: "announcement"
    <<108,111,99,107,101,100>>,  \* 155: "locked"
    <<112,114,111,112>>,  \* 156: "prop"
    <<108,97,98,101,108>>,  \* 157: "label"
    <<99,111,108,111,114>>,  \* 158: "color"
    <<99,97,108,108>>,  \* 159: "call"
    <<111,102,102,101,114>>,  \* 160: "offer"
    <<99,97,108,108,45,105,100>>,  \* 161: "call-id"
    <<113,117,105,99,107,95,114,101,112,108,121>>,  \* 162: "quick_reply"
    <<115,116,105,99,107,101,114>>,  \* 163: "sticker"
    <<112,97,121,95,116>>,  \* 164: "pay_t"
    <<97,99,99,101,112,116>>,  \* 165: "accept"
    <<114,101,106,101,99,116>>,  \* 166: "reject"
    <<115,116,105,99,107,101,114,95,112,97,99,107>>,  \* 167: "sticker_pack"
    <<105,110,118,97,108,105,100>>,  \* 168: "invalid"
    <<99,97,110,99,101,108,101,100>>,  \* 169: "canceled"
    <<109,105,115,115,101,100>>,  \* 170: "missed"
    <<99,111,110,110,101,99,116,101,100>>,  \* 171: "connected"
    <<114,101,115,117,108,116>>,  \* 172: "result"
    <<97,117,100,105,111>>,  \* 173: "audio"
    <<118,105,100,101,111>>,  \* 174: "video"
    <<114,101,99,101,110,116>>  \* 175: "recent"
  >>

\* Array.prototype.indexOf on the token table: 0-based position of the first
\* entry equal to the string, -1 when there is none (null never equals a string).
IndexOf(token) ==
    LET hits == { i \in 1..Len(WASingleByteTokens) : WASingleByteTokens[i] = token }
    IN  IF hits = {} THEN -1
        ELSE (CHOOSE i \in hits : \A j \in hits : i <= j) - 1

\* Strings used by the codec checks, as ASCII bytes.
S_message == <<109,101,115,115,97,103,101>>                      \* "message"
S_to == <<116,111>>                                              \* "to"
S_swhatsappnet == <<115,46,119,104,97,116,115,97,112,112,46,110,101,116>>  \* "s.whatsapp.net"
S_cus == <<99,46,117,115>>                                       \* "c.us"
S_gus == <<103,46,117,115>>                                      \* "g.us"
S_hi == <<104,105>>                                              \* "hi" (not in the dictionary)
S_empty == <<>>                                                  \* ""
S_at == <<64>>                                                   \* "@"
S_1234567890 == <<49,50,51,52,53,54,55,56,57,48>>                \* "1234567890"
S_jid == S_1234567890 \o S_at \o S_swhatsappnet                  \* "1234567890@s.whatsapp.net"
S_gjid == S_1234567890 \o S_at \o S_gus                          \* "1234567890@g.us"
S_atgus == S_at \o S_gus                                         \* "@g.us"

---------------------------------------------------------------------------
(* src/src/proto/binary-writer.js: class WABinaryWriter.  Every write      *)
(* operator returns the bytes the method appends to this.data, or Throw.   *)

\* Concatenation of the output of two consecutive writes; an exception in
\* either aborts the whole write.
Cat(a, b) == IF a = Throw \/ b = Throw THEN Throw ELSE a \o b

RECURSIVE Pow2(_)
Pow2(n) == IF n = 0 THEN 1 ELSE 2 * Pow2(n - 1)

pushByte(value) == << value % 256 >>

\* big-endian (the only form the writer uses)
pushIntN(value, n) == [ i \in 1..n |-> (value \div Pow2(8 * (n - i))) % 256 ]

pushInt20(value) ==
    << (value \div 65536) % 16, (value \div 256) % 256, value % 256 >>

pushInt16(value) == pushIntN(value, 2)

pushInt32(value) == pushIntN(value, 4)

writeByteLength8Only(length) == pushByte(WATags.BINARY_8) \o pushByte(length)
writeByteLength(length) ==
    IF length \div 65536 >= 65536 THEN Throw     \* length >= 4294967296
    ELSE IF length >= Pow2(20) THEN pushByte(WATags.BINARY_32) \o pushInt32(length)
    ELSE IF length >= 256 THEN pushByte(WATags.BINARY_20) \o pushInt20(length)
    ELSE pushByte(WATags.BINARY_8) \o pushByte(length)

writeToken(token) ==
    IF token < 245 THEN pushByte(token)
    ELSE IF token <= 500 THEN Throw
    ELSE <<>>

writeStringRaw(str) == Cat(writeByteLength(Len(str)), str)

\* String.prototype.indexOf("@"): 0-based, -1 when absent
jidSepIndexOf(token) ==
    LET hits == { i \in 1..Len(token) : token[i] = 64 }
    IN  IF hits = {} THEN -1
        ELSE (CHOOSE i \in hits : \A j \in hits : i <= j) - 1

RECURSIVE writeString(_, _)
writeJid(jidLeft, jidRight) ==
    Cat(pushByte(WATags.JID_PAIR),
        Cat(IF jidLeft # Null /\ Len(jidLeft) > 0
              THEN writeString(jidLeft, FALSE)
              ELSE writeToken(WATags.LIST_EMPTY),
            writeString(jidRight, FALSE)))

writeString(token, isValue) ==
    IF token = Null THEN Throw                      \* typeof token !== 'string'
    ELSE IF ~isValue /\ token = S_cus
      THEN writeToken(IndexOf(S_swhatsappnet))
    ELSE LET tokenIndex == IndexOf(token) IN
      IF tokenIndex # -1
        THEN IF tokenIndex < WATags.SINGLE_BYTE_MAX
               THEN writeToken(tokenIndex)
               ELSE LET singleByteOverflow == tokenIndex - WATags.SINGLE_BYTE_MAX
                        dictionaryIndex == singleByteOverflow \div 256
                    IN  IF dictionaryIndex < 0 \/ dictionaryIndex > 3 THEN Throw
                        ELSE Cat(writeToken(WATags.DICTIONARY_0 + dictionaryIndex),
                                 writeToken(singleByteOverflow % 256))
        ELSE LET jidSepIndex == jidSepIndexOf(token) IN
             IF jidSepIndex >= 1
               THEN writeJid(SubSeq(token, 1, jidSepIndex),
                             SubSeq(token, jidSepIndex + 2, Len(token)))
               ELSE writeStringRaw(token)

\* attrs is the sequence Object.entries(attrs) of <<key, value>> pairs
validEntries(attrs) == SelectSeq(attrs, LAMBDA kv : kv[2] # Null)

getNumValidKeys(attrs) == Len(validEntries(attrs))

RECURSIVE writeAttributes(_)
writeAttributes(attrs) ==
    IF attrs = <<>> THEN <<>>
    ELSE LET kv == Head(attrs) IN
         IF kv[2] # Null
           THEN Cat(Cat(writeString(kv[1], FALSE), writeString(kv[2], FALSE)),
                    writeAttributes(Tail(attrs)))
           ELSE writeAttributes(Tail(attrs))

writeListStart(listSize) ==
    IF listSize = 0 THEN pushByte(WATags.LIST_EMPTY)
    ELSE IF listSize < 256 THEN pushByte(WATags.LIST_8) \o pushByte(listSize)
    ELSE pushByte(WATags.LIST_16) \o pushInt16(listSize)

\* Node content: null, a string, a Buffer or an array of nodes
NoContent == [kind |-> "none", str |-> <<>>, kids |-> <<>>]
Text(s) == [kind |-> "text", str |-> s, kids |-> <<>>]
Bytes(b) == [kind |-> "bytes", str |-> b, kids |-> <<>>]
Children(ns) == [kind |-> "list", str |-> <<>>, kids |-> ns]

\* JavaScript truthiness of node[2]: null and "" are falsy; a Buffer and an
\* array are truthy even when empty.
truthy(content) ==
    /\ content.kind # "none"
    /\ ~(content.kind = "text" /\ content.str = <<>>)

MkNode(tag, attrs, content) == [tag |-> tag, attrs |-> attrs, content |-> content]

RECURSIVE writeNode(_)
RECURSIVE writeNodes(_)
writeChildren(children) ==
    IF ~truthy(children) THEN <<>>
    ELSE IF children.kind = "text" THEN writeString(children.str, TRUE)
    ELSE IF children.kind = "bytes"
      THEN Cat(writeByteLength(Len(children.str)), children.str)
    ELSE Cat(writeListStart(Len(children.kids)), writeNodes(children.kids))

writeNodes(ns) ==
    IF ns = <<>> THEN <<>> ELSE Cat(writeNode(Head(ns)), writeNodes(Tail(ns)))

writeNode(n) ==
    LET numAttributes == getNumValidKeys(n.attrs) IN
    Cat(writeListStart(2 * numAttributes + 1 + (IF truthy(n.content) THEN 1 ELSE 0)),
        Cat(writeString(n.tag, FALSE),
            Cat(writeAttributes(n.attrs), writeChildren(n.content))))

whatsappWriteBinary(n) == writeNode(n)

---------------------------------------------------------------------------
(* src/src/proto/binary-reader.js: class WABinaryReader.  A read operator  *)
(* takes the buffer d and this.index i (0-based) and returns               *)
(* [ok, val, idx]: the value read and the new index, or ok = FALSE with    *)
(* the index at which the exception was thrown.                            *)

Ok(v, i) == [ok |-> TRUE, val |-> v, idx |-> i]
Err(i) == [ok |-> FALSE, val |-> Null, idx |-> i]

\* checkEOS(length) passes
hasBytes(d, i, length) == ~(i + length > Len(d))

\* this.data[this.index] of an index below 0 is undefined, which equals no
\* tag
Undefined == -1
readByte(d, i) ==
    IF hasBytes(d, i, 1) THEN Ok(IF i < 0 THEN Undefined ELSE d[i + 1], i + 1)
    ELSE Err(i)

\* Buffer.prototype.slice(start, end): a negative offset counts from the
\* end, both are clamped to the buffer
sliceOffset(d, k) ==
    IF k < 0 THEN (IF Len(d) + k < 0 THEN 0 ELSE Len(d) + k)
    ELSE IF k > Len(d) THEN Len(d) ELSE k
slice(d, start, end) ==
    IF sliceOffset(d, start) >= sliceOffset(d, end) THEN <<>>
    ELSE SubSeq(d, sliceOffset(d, start) + 1, sliceOffset(d, end))

readInt16(d, i) ==
    IF hasBytes(d, i, 2) THEN Ok(d[i + 1] * 256 + d[i + 2], i + 2) ELSE Err(i)

readInt20(d, i) ==
    IF hasBytes(d, i, 3)
      THEN Ok((d[i + 1] % 16) * 65536 + d[i + 2] * 256 + d[i + 3], i + 3)
      ELSE Err(i)

\* readIntN(4): ret |= byte << shift works on signed 32-bit integers, so a
\* first byte of 128 or more gives a negative result.
readInt32(d, i) ==
    IF hasBytes(d, i, 4)
      THEN LET b0 == IF d[i + 1] >= 128 THEN d[i + 1] - 256 ELSE d[i + 1]
           IN  Ok(b0 * 16777216 + d[i + 2] * 65536 + d[i + 3] * 256 + d[i + 4], i + 4)
      ELSE Err(i)

unpackNibble(value) ==
    IF value >= 0 /\ value <= 9 THEN <<48 + value>>
    ELSE IF value = 10 THEN <<45>>          \* "-"
    ELSE IF value = 11 THEN <<46>>          \* "."
    ELSE IF value = 15 THEN <<0>>           \* "\0"
    ELSE Throw

unpackHex(value) ==
    IF value < 0 \/ value > 15 THEN Throw
    ELSE IF value < 10 THEN <<48 + value>>
    ELSE <<65 + value - 10>>

unpackByte(tag, value) ==
    IF tag = WATags.NIBBLE_8 THEN unpackNibble(value)
    ELSE IF tag = WATags.HEX_8 THEN unpackHex(value)
    ELSE Throw

\* what follows a read: an exception of the read propagates, otherwise the
\* rest of the method runs on the value read and the new index
andThen(r, rest(_)) == IF ~r.ok THEN Err(r.idx) ELSE rest(r)

\* ret + unpackByte(high nibble) + unpackByte(low nibble)
appendUnpacked(ret, hi, lo, i) ==
    IF hi = Throw \/ lo = Throw THEN Err(i) ELSE Ok(ret \o hi \o lo, i)

\* the loop of readPacked8: k bytes left to read, ret accumulated so far
RECURSIVE readPackedLoop(_, _, _, _, _)
readPackedLoop(d, i, tag, k, ret) ==
    IF k = 0 THEN Ok(ret, i)
    ELSE andThen(readByte(d, i), LAMBDA b :
         andThen(appendUnpacked(ret, unpackByte(tag, b.val \div 16),
                                unpackByte(tag, b.val % 16), b.idx), LAMBDA u :
         readPackedLoop(d, u.idx, tag, k - 1, u.val)))

readPacked8(d, i, tag) ==
    andThen(readByte(d, i), LAMBDA startByte :
    andThen(readPackedLoop(d, startByte.idx, tag, startByte.val % 128, <<>>), LAMBDA r :
    IF startByte.val \div 128 # 0
      THEN Ok(SubSeq(r.val, 1, Len(r.val) - 1), r.idx)
      ELSE r))

isListTag(tag) ==
    tag = WATags.LIST_EMPTY \/ tag = WATags.LIST_8 \/ tag = WATags.LIST_16

readListSize(d, i, tag) ==
    IF tag = WATags.LIST_EMPTY THEN Ok(0, i)
    ELSE IF tag = WATags.LIST_8 THEN readByte(d, i)
    ELSE IF tag = WATags.LIST_16 THEN readInt16(d, i)
    ELSE Err(i)

getToken(index) ==
    IF index < 3 \/ index >= Len(WASingleByteTokens) THEN Throw
    ELSE WASingleByteTokens[index + 1]

RECURSIVE decimal(_)
decimal(n) == IF n < 10 THEN <<48 + n>> ELSE decimal(n \div 10) \o <<48 + (n % 10)>>

\* `DOUBLE_TOKEN_${256 * index1 + index2}`
getTokenDouble(index1, index2) ==
    <<68,79,85,66,76,69,95,84,79,75,69,78,95>> \o decimal(256 * index1 + index2)

readStringFromChars(d, i, length) ==
    IF hasBytes(d, i, length)
      THEN Ok(slice(d, i, i + length), i + length)
      ELSE Err(i)

\* the length of a raw string or content: readByte(), readInt20() or
\* readInt32() by tag
readRawLength(d, i, tag) ==
    IF tag = WATags.BINARY_8 THEN readByte(d, i)
    ELSE IF tag = WATags.BINARY_20 THEN readInt20(d, i)
    ELSE readInt32(d, i)

\* the token of a single-byte tag, 's.whatsapp.net' replaced by 'c.us'
readToken(token, i) ==
    IF token = Throw THEN Err(i)
    ELSE IF token = S_swhatsappnet THEN Ok(S_cus, i)
    ELSE Ok(token, i)

\* i + "@" + j of the JID_PAIR branch
joinJid(a, b) ==
    IF a.val = Null \/ b.val = Null THEN Err(b.idx)
    ELSE Ok(a.val \o <<64>> \o b.val, b.idx)

\* readString(this.readByte()): an exception of readByte propagates
RECURSIVE readString(_, _, _)
readStringAt(d, i) ==
    andThen(readByte(d, i), LAMBDA t : readString(d, t.idx, t.val))

readString(d, i, tag) ==
    IF tag >= 3 /\ tag <= 235
      THEN readToken(getToken(tag), i)
    ELSE IF tag \in { WATags.DICTIONARY_0, WATags.DICTIONARY_1,
                      WATags.DICTIONARY_2, WATags.DICTIONARY_3 }
      THEN andThen(readByte(d, i), LAMBDA b :
           Ok(getTokenDouble(tag - WATags.DICTIONARY_0, b.val), b.idx))
    ELSE IF tag = WATags.LIST_EMPTY THEN Ok(Null, i)
    ELSE IF tag \in { WATags.BINARY_8, WATags.BINARY_20, WATags.BINARY_32 }
      THEN andThen(readRawLength(d, i, tag), LAMBDA n :
           readStringFromChars(d, n.idx, n.val))
    ELSE IF tag = WATags.JID_PAIR
      THEN andThen(readStringAt(d, i), LAMBDA a :
           andThen(readStringAt(d, a.idx), LAMBDA b :
           joinJid(a, b)))
    ELSE IF tag = WATags.NIBBLE_8 \/ tag = WATags.HEX_8 THEN readPacked8(d, i, tag)
    ELSE Err(i)

\* ret[index] = value on the object under construction: an existing key
\* keeps its place and takes the new value, a new key is appended.
setAttr(ret, key, value) ==
    IF \E k \in 1..Len(ret) : ret[k][1] = key
      THEN [ k \in 1..Len(ret) |-> IF ret[k][1] = key THEN <<key, value>> ELSE ret[k] ]
      ELSE Append(ret, <<key, value>>)

\* JavaScript truthiness of a string read from the wire: null and "" are falsy
truthyStr(s) == s # Null /\ s # <<>>

\* if (index && value) ret[index] = value
putAttr(ret, index, value) ==
    IF truthyStr(index) /\ truthyStr(value) THEN setAttr(ret, index, value) ELSE ret

RECURSIVE readAttributesLoop(_, _, _, _)
readAttributesLoop(d, i, n, ret) ==
    IF n = 0 THEN Ok(ret, i)
    ELSE andThen(readStringAt(d, i), LAMBDA index :
         andThen(readStringAt(d, index.idx), LAMBDA value :
         readAttributesLoop(d, value.idx, n - 1, putAttr(ret, index.val, value.val))))

readAttributes(d, i, n) == readAttributesLoop(d, i, n, <<>>)

readBytes(d, i, n) ==
    IF hasBytes(d, i, n)
      THEN Ok(slice(d, i, i + n), i + n)
      ELSE Err(i)

RECURSIVE readNode(_, _)
RECURSIVE readListLoop(_, _, _, _)
readListLoop(d, i, size, ret) ==
    IF size = 0 THEN Ok(ret, i)
    ELSE andThen(readNode(d, i), LAMBDA n :
         readListLoop(d, n.idx, size - 1, Append(ret, n.val)))

readList(d, i, tag) ==
    andThen(readListSize(d, i, tag), LAMBDA size :
    readListLoop(d, size.idx, size.val, <<>>))

\* a string read as content: null is no content
textOrNone(s) == IF s = Null THEN NoContent ELSE Text(s)

\* the content of a node whose list size is even, starting after tag byte
readContent(d, i, tag) ==
    IF isListTag(tag)
      THEN andThen(readList(d, i, tag), LAMBDA l : Ok(Children(l.val), l.idx))
    ELSE IF tag \in { WATags.BINARY_8, WATags.BINARY_20, WATags.BINARY_32 }
      THEN andThen(readRawLength(d, i, tag), LAMBDA n :
           andThen(readBytes(d, n.idx, n.val), LAMBDA b :
           Ok(Bytes(b.val), b.idx)))
    ELSE andThen(readString(d, i, tag), LAMBDA s : Ok(textOrNone(s.val), s.idx))

readNode(d, i) ==
    andThen(readByte(d, i), LAMBDA t0 :
    andThen(readListSize(d, t0.idx, t0.val), LAMBDA listSize :
    andThen(readByte(d, listSize.idx), LAMBDA descrTag :
    IF descrTag.val = WATags.STREAM_END THEN Err(descrTag.idx) ELSE
    andThen(readString(d, descrTag.idx, descrTag.val), LAMBDA descr :
    IF listSize.val = 0 \/ ~truthyStr(descr.val) THEN Err(descr.idx) ELSE
    andThen(readAttributes(d, descr.idx, (listSize.val - 1) \div 2), LAMBDA attrs :
    IF listSize.val % 2 = 1
      THEN Ok(MkNode(descr.val, attrs.val, NoContent), attrs.idx)
      ELSE andThen(readByte(d, attrs.idx), LAMBDA tag :
           andThen(readContent(d, tag.idx, tag.val), LAMBDA content :
           Ok(MkNode(descr.val, attrs.val, content.val), content.idx))))))))

\* new WABinaryReader(data).readNode(); an exception is rethrown
whatsappReadBinary(data) ==
    IF data = Throw THEN Err(0) ELSE readNode(data, 0)

---------------------------------------------------------------------------
(* The codec as a state machine: a caller builds a Node (a leaf, wrapped   *)
(* in parents up to MaxDepth), whatsappWriteBinary encodes it and          *)
(* whatsappReadBinary decodes the bytes; or a caller hands one string to   *)
(* WABinaryWriter.writeString and reads it back with                       *)
(* WABinaryReader.readString(readByte()).                                  *)

MaxDepth == 4

TagPool == { S_message, S_hi, S_swhatsappnet, S_cus }

AttrsPool ==
    { <<>>,
      << <<S_to, S_gjid>> >>,
      << <<S_to, S_jid>>, <<S_hi, S_message>> >>,
      << <<S_hi, S_empty>> >> }

LeafContentPool ==
    { NoContent, Text(S_empty), Text(S_message), Text(S_hi), Text(S_gjid),
      Bytes(<<>>), Bytes(<<1, 2, 255>>), Children(<<>>) }

LeafNodes ==
    { MkNode(t, a, c) : t \in TagPool, a \in AttrsPool, c \in LeafContentPool }

StringPool ==
    { S_message, S_hi, S_empty, S_cus, S_swhatsappnet,
      S_jid, S_gjid, S_atgus, S_1234567890 \o S_at \o S_hi, S_hi \o S_at }

WrapTags == { S_message, S_hi }

SiblingLeaf == MkNode(S_to, <<>>, NoContent)

RECURSIVE depthOf(_)
depthOf(n) ==
    IF n.content.kind = "list" /\ n.content.kids # <<>>
      THEN 1 + depthOf(n.content.kids[1])
      ELSE 0

\* the codec at rest, for the specifications of the other components
CodecIdle ==
    /\ codecPc = "build" /\ wire = <<>> /\ decoded = Err(0)
    /\ node = SiblingLeaf /\ strIn = Null /\ strIsValue = FALSE

CodecInit ==
    /\ codecPc = "build"
    /\ wire = <<>>
    /\ decoded = Err(0)
    /\ \/ node \in LeafNodes /\ strIn = Null /\ strIsValue = FALSE
       \/ node = SiblingLeaf /\ strIn \in StringPool /\ strIsValue \in BOOLEAN

\* the caller nests the node built so far as the only child of a new parent
WrapNode ==
    /\ codecPc = "build" /\ strIn = Null
    /\ depthOf(node) < MaxDepth
    /\ \E t \in WrapTags :
         node' = MkNode(t, <<>>, Children(<<node>>))
    /\ UNCHANGED <<wire, decoded, codecPc, strIn, strIsValue>>

\* ... or as the first of two children
WrapNodePair ==
    /\ codecPc = "build" /\ strIn = Null
    /\ depthOf(node) < MaxDepth
    /\ node' = MkNode(S_message, << <<S_to, S_gjid>> >>, Children(<<node, SiblingLeaf>>))
    /\ UNCHANGED <<wire, decoded, codecPc, strIn, strIsValue>>

EncodeNode ==
    /\ codecPc = "build" /\ strIn = Null
    /\ wire' = whatsappWriteBinary(node)
    /\ codecPc' = "encoded"
    /\ UNCHANGED <<node, decoded, strIn, strIsValue>>

DecodeNode ==
    /\ codecPc = "encoded" /\ strIn = Null
    /\ wire # Throw
    /\ decoded' = whatsappReadBinary(wire)
    /\ codecPc' = "decoded"
    /\ UNCHANGED <<node, wire, strIn, strIsValue>>

EncodeString ==
    /\ codecPc = "build" /\ strIn # Null
    /\ wire' = writeString(strIn, strIsValue)
    /\ codecPc' = "encoded"
    /\ UNCHANGED <<node, decoded, strIn, strIsValue>>

DecodeString ==
    /\ codecPc = "encoded" /\ strIn # Null
    /\ wire # Throw
    /\ decoded' = readStringAt(wire, 0)
    /\ codecPc' = "decoded"
    /\ UNCHANGED <<node, wire, strIn, strIsValue>>

CodecNext ==
    \/ WrapNode
    \/ WrapNodePair
    \/ EncodeNode
    \/ DecodeNode
    \/ EncodeString
    \/ DecodeString

---------------------------------------------------------------------------
(* src/src/crypto/signal-impl.js: class SignalProtocolImpl.                *)
(*                                                                         *)
(* Keys are symbolic terms: a key is the sequence of derivation labels     *)
(* that leads to it from a root secret, so HMAC and HKDF are one-way and   *)
(* collision-free.  crypto.createCipherGCM / createDecipherGCM stand for   *)
(* an AES-256-GCM AEAD keyed by the key they are given (the code passes no *)
(* IV to either of them).                                                  *)

\* crypto.createHmac('sha256', key).update(data).digest()
hmac(key, data) == key \o <<data>>

\* block i (1-based) of the output of hkdf(ikm, zero salt, info 'message', 80)
hkdfBlock(inputKeyMaterial, i) == inputKeyMaterial \o <<100 + i>>

generateMessageKeys(chainKey) ==
    LET messageKey == hmac(chainKey, 1) IN
    [ cipherKey |-> hkdfBlock(messageKey, 1),      \* keys.slice(0, 32)
      macKey    |-> hkdfBlock(messageKey, 2),      \* keys.slice(32, 64)
      iv        |-> hkdfBlock(messageKey, 3) ]     \* keys.slice(64, 80)

generateNextChainKey(chainKey) == hmac(chainKey, 2)

\* AES-256-GCM under key: the ciphertext, and the authentication tag over
\* the associated data and the ciphertext.  The code builds the ciphers with
\* crypto.createCipherGCM(algorithm, key) / createDecipherGCM: no IV reaches
\* them, so the result depends on key, associated data and plaintext only.
gcmCiphertext(key, plaintext) == [k |-> key, p |-> plaintext]
gcmTag(key, aad, ciphertext) == [k |-> key, a |-> aad, c |-> ciphertext]

\* decipher.setAuthTag(tag); update(ciphertext); final(): the plaintext, or
\* Throw when the tag does not authenticate the ciphertext under key
gcmOpen(key, aad, ciphertext, tag) ==
    IF ciphertext.k = key /\ tag = gcmTag(key, aad, ciphertext)
      THEN ciphertext.p
      ELSE Throw

\* the message returned and the session state left by encryptWithDoubleRatchet
encryptWithDoubleRatchet(plaintext, sessionState) ==
    LET messageKeys == generateMessageKeys(sessionState.sendingChainKey)
        ciphertext == gcmCiphertext(messageKeys.cipherKey, plaintext)
        tag == gcmTag(messageKeys.cipherKey, <<>>, ciphertext)
        newState == [sessionState EXCEPT
                       !.sendingChainKey = generateNextChainKey(@),
                       !.previousCounter = @ + 1]
    IN  [ message |-> [ ciphertext |-> ciphertext,
                        tag |-> tag,
                        iv |-> messageKeys.iv,
                        counter |-> newState.previousCounter ],
          state |-> newState ]

RECURSIVE advanceChain(_, _)
\* for (let i = 0; i < counter; i++) currentChainKey = next(currentChainKey)
advanceChain(chainKey, counter) ==
    IF counter <= 0 THEN chainKey
    ELSE advanceChain(generateNextChainKey(chainKey), counter - 1)

getMessageKeysForCounter(chainKey, counter) ==
    generateMessageKeys(advanceChain(chainKey, counter))

\* the plaintext returned (or Throw) and the session state left by
\* decryptWithDoubleRatchet: the code assigns nothing to sessionState
decryptWithDoubleRatchet(encryptedMessage, sessionState) ==
    LET messageKeys == getMessageKeysForCounter(sessionState.receivingChainKey,
                                                encryptedMessage.counter)
    IN  [ plaintext |-> gcmOpen(messageKeys.cipherKey, <<>>,
                                encryptedMessage.ciphertext,
                                encryptedMessage.tag),
          state |-> sessionState ]

(* The ratchet as a state machine: one party encrypts with its session     *)
(* state, the messages travel over a channel that may reorder them, the    *)
(* other party decrypts with its own session state.  Both start from the   *)
(* same chain key.                                                         *)

MaxSent == 3
MaxReceived == 3
MaxForgedCounter == 40

Plaintexts == { <<104, 105>>, <<98, 121, 101>> }      \* "hi", "bye"

RootChainKey == <<0>>

\* previousCounter of a fresh session state: 0, or -1 when the caller
\* numbers the first message 0
InitialCounters == { 0, -1 }

RatchetInit ==
    /\ \E c \in InitialCounters :
         senderState = [ sendingChainKey |-> RootChainKey,
                         receivingChainKey |-> <<1>>,
                         previousCounter |-> c ]
    /\ receiverState = [ sendingChainKey |-> <<1>>,
                         receivingChainKey |-> RootChainKey,
                         previousCounter |-> 0 ]
    /\ channel = {}
    /\ sentLog = <<>>
    /\ receivedLog = <<>>

RatchetEncrypt ==
    /\ Len(sentLog) < MaxSent
    /\ \E plaintext \in Plaintexts :
         LET r == encryptWithDoubleRatchet(plaintext, senderState) IN
         /\ senderState' = r.state
         /\ channel' = channel \cup { r.message }
         /\ sentLog' = Append(sentLog,
                [ message |-> r.message, plaintext |-> plaintext,
                  chainKey |-> senderState.sendingChainKey ])
    /\ UNCHANGED <<receiverState, receivedLog>>

RatchetDecrypt ==
    /\ Len(receivedLog) < MaxReceived
    /\ \E m \in channel :
         LET r == decryptWithDoubleRatchet(m, receiverState) IN
         /\ receiverState' = r.state
         /\ receivedLog' = Append(receivedLog,
                [ message |-> m, plaintext |-> r.plaintext,
                  chainKey |-> receiverState.receivingChainKey ])
    /\ UNCHANGED <<senderState, channel, sentLog>>

\* the network rewrites the counter of a message in flight: the counter
\* travels in the clear and the GCM tag covers the ciphertext only
RatchetForge ==
    /\ \E m \in channel :
         /\ m.counter # MaxForgedCounter
         /\ channel' = channel \cup { [m EXCEPT !.counter = MaxForgedCounter] }
    /\ UNCHANGED <<senderState, receiverState, sentLog, receivedLog>>

RatchetNext ==
    \/ RatchetEncrypt
    \/ RatchetDecrypt
    \/ RatchetForge

RatchetIdle ==
    /\ senderState = [ sendingChainKey |-> RootChainKey,
                       receivingChainKey |-> <<1>>,
                       previousCounter |-> 0 ]
    /\ receiverState = [ sendingChainKey |-> <<1>>,
                         receivingChainKey |-> RootChainKey,
                         previousCounter |-> 0 ]
    /\ channel = {}
    /\ sentLog = <<>>
    /\ receivedLog = <<>>

---------------------------------------------------------------------------
(* The two MAC-protected ciphers: CryptoHandler.encrypt / decrypt          *)
(* (src/unnamed/part_001) and MediaHandler._encryptMedia / _decryptMedia   *)
(* (src/src/media/index.js).  Both return iv || ciphertext || mac; the     *)
(* model keeps the three slices as the fields of a record.  The IV is a    *)
(* FlipBits-bit number; the ciphertext and the MAC are symbolic terms      *)
(* that carry the XOR mask x an attacker has applied to them (x = 0: as    *)
(* computed).                                                              *)

FlipBits == 2
MaskRange == 0 .. (Pow2(FlipBits) - 1)

\* value with bit b (0-based) inverted
flipBit(value, b) ==
    IF (value \div Pow2(b)) % 2 = 1 THEN value - Pow2(b) ELSE value + Pow2(b)

\* crypto.createCipher('aes-256-cbc', key): update(data) || final()
cbcEncrypt(key, data) == [k |-> key, p |-> data, x |-> 0]

\* crypto.createDecipher('aes-256-cbc', key): a ciphertext that key did not
\* produce either fails the padding check or decrypts to other bytes
Garbled == <<-4>>
cbcDecrypt(key, encrypted) ==
    IF encrypted.k = key /\ encrypted.x = 0 THEN encrypted.p ELSE Garbled

\* createHmac('sha256', macKey).update(iv).update(encrypted).digest(), and
\* its first len bytes
hmacSha256(macKey, iv, encrypted, len) ==
    [k |-> macKey, iv |-> iv, d |-> encrypted, len |-> len, x |-> 0]

sessionKeysOf == [encryptionKey |-> <<61>>, macKey |-> <<62>>]
expandedKeyOf == [cipherKey |-> <<63>>, macKey |-> <<64>>]

\* CryptoHandler.encrypt(data) with the random IV it drew
encrypt(data, iv) ==
    LET encrypted == cbcEncrypt(sessionKeysOf.encryptionKey, data)
        mac == hmacSha256(sessionKeysOf.macKey, iv, encrypted, 32)
    IN  [iv |-> iv, encrypted |-> encrypted, mac |-> mac]

\* decrypt without the comparison of mac and calculatedMac
decryptUnverified(encryptedData) ==
    cbcDecrypt(sessionKeysOf.encryptionKey, encryptedData.encrypted)

\* CryptoHandler.decrypt(encryptedData): the plaintext, or Throw
decrypt(encryptedData) ==
    LET iv == encryptedData.iv
        mac == encryptedData.mac
        encrypted == encryptedData.encrypted
        calculatedMac == hmacSha256(sessionKeysOf.macKey, iv, encrypted, 32)
    IN  IF mac # calculatedMac THEN Throw       \* 'MAC verification failed'
        ELSE cbcDecrypt(sessionKeysOf.encryptionKey, encrypted)

\* MediaHandler._encryptMedia(buffer, expandedKey).ciphertext
encryptMedia_(buffer, iv) ==
    LET ciphertext == cbcEncrypt(expandedKeyOf.cipherKey, buffer)
        mac == hmacSha256(expandedKeyOf.macKey, iv, ciphertext, 10)
    IN  [iv |-> iv, encrypted |-> ciphertext, mac |-> mac]

\* MediaHandler._decryptMedia(encryptedBuffer, expandedKey)
decryptMedia_(encryptedBuffer) ==
    LET iv == encryptedBuffer.iv
        mac == encryptedBuffer.mac
        ciphertext == encryptedBuffer.encrypted
        calculatedMac == hmacSha256(expandedKeyOf.macKey, iv, ciphertext, 10)
    IN  IF mac # calculatedMac THEN Throw       \* 'HMAC verification failed'
        ELSE cbcDecrypt(expandedKeyOf.cipherKey, ciphertext)

MacPlaintexts == { <<104, 105>>, <<>> }

MacIdle ==
    /\ macBlob = NoBuffer
    /\ macSealed = NoBuffer
    /\ macPlain = NoBuffer
    /\ macKind = "none"
    /\ macOut = NoBuffer

MacInit == MacIdle

\* a fresh message is encrypted once the previous one has been opened
MacEncrypt ==
    /\ macKind = "none" \/ macOut # NoBuffer
    /\ \E data \in MacPlaintexts, iv \in MaskRange :
         /\ macBlob' = encrypt(data, iv)
         /\ macSealed' = encrypt(data, iv)
         /\ macPlain' = data
    /\ macKind' = "session"
    /\ macOut' = NoBuffer

MacEncryptMedia ==
    /\ macKind = "none" \/ macOut # NoBuffer
    /\ \E buffer \in MacPlaintexts, iv \in MaskRange :
         /\ macBlob' = encryptMedia_(buffer, iv)
         /\ macSealed' = encryptMedia_(buffer, iv)
         /\ macPlain' = buffer
    /\ macKind' = "media"
    /\ macOut' = NoBuffer

\* in transit, one bit of the IV, of the ciphertext or of the MAC is inverted
MacFlipIvBit ==
    /\ macKind # "none" /\ macOut = NoBuffer
    /\ \E b \in 0 .. (FlipBits - 1) :
         macBlob' = [macBlob EXCEPT !.iv = flipBit(@, b)]
    /\ UNCHANGED <<macSealed, macPlain, macKind, macOut>>

MacFlipCiphertextBit ==
    /\ macKind # "none" /\ macOut = NoBuffer
    /\ \E b \in 0 .. (FlipBits - 1) :
         macBlob' = [macBlob EXCEPT !.encrypted.x = flipBit(@, b)]
    /\ UNCHANGED <<macSealed, macPlain, macKind, macOut>>

MacFlipMacBit ==
    /\ macKind # "none" /\ macOut = NoBuffer
    /\ \E b \in 0 .. (FlipBits - 1) :
         macBlob' = [macBlob EXCEPT !.mac.x = flipBit(@, b)]
    /\ UNCHANGED <<macSealed, macPlain, macKind, macOut>>

MacDecrypt ==
    /\ macKind = "session" /\ macOut = NoBuffer
    /\ macOut' = decrypt(macBlob)
    /\ UNCHANGED <<macBlob, macSealed, macPlain, macKind>>

MacDecryptMedia ==
    /\ macKind = "media" /\ macOut = NoBuffer
    /\ macOut' = decryptMedia_(macBlob)
    /\ UNCHANGED <<macBlob, macSealed, macPlain, macKind>>

---------------------------------------------------------------------------
(* src/src/crypto/noise.js: class NoiseProtocol.                           *)
(*                                                                         *)
(* Hashes and derived keys are symbolic terms (sequences of labels), as    *)
(* for the ratchet.  A handshake message part is the record                *)
(* [ciphertext, tag] that Buffer.concat([ciphertext, tag]) holds;          *)
(* slice(0, -16) and slice(-16) are its two fields.  The nonce buffer      *)
(* built from handshakeState.n is passed to neither cipher, so the AEAD    *)
(* depends on the key and the associated data only.                        *)

\* the bytes of a message part, as mixHash hashes them
bytesOf(part) ==
    <<-40>> \o part.ciphertext.k \o <<-41>> \o part.ciphertext.p
    \o <<-42>> \o part.tag.k \o <<-43>> \o part.tag.a

\* sha256(h || data)
sha256of(h, data) == h \o <<-44>> \o data

\* hkdf(inputKeyMaterial, salt, empty info, 64): output.slice(0,32) is block
\* 1 and output.slice(32,64) is block 2
noiseHkdf(inputKeyMaterial, salt, block) ==
    <<-45>> \o salt \o <<-46>> \o inputKeyMaterial \o <<-47, block>>

\* crypto.diffieHellman({privateKey, publicKey})
diffieHellman(privateKey, publicKey) == <<-48>> \o privateKey \o <<-49>> \o publicKey

\* 'Noise_XX_25519_AESGCM_SHA256' padded to 32 bytes
ProtocolNameHash == <<-50>>

\* initialize(): the fresh handshakeState
initialHandshakeState ==
    [ localStatic |-> NoBuffer, localEphemeral |-> NoBuffer,
      remoteStatic |-> NoBuffer, remoteEphemeral |-> NoBuffer,
      h |-> ProtocolNameHash, ck |-> ProtocolNameHash, k |-> NoBuffer, n |-> 0 ]

\* Every operator below returns [st, out]: the handshakeState it leaves and
\* the value it returns, Throw for an exception (st then holds what had
\* been assigned before the exception).

mixHash(st, data) == [st EXCEPT !.h = sha256of(st.h, data)]

mixKeyKeepsCounter(st, inputKeyMaterial) ==
    [st EXCEPT !.ck = noiseHkdf(inputKeyMaterial, st.ck, 1),
               !.k = noiseHkdf(inputKeyMaterial, st.ck, 2)]

mixKey(st, inputKeyMaterial) ==
    [st EXCEPT !.ck = noiseHkdf(inputKeyMaterial, st.ck, 1),
               !.k = noiseHkdf(inputKeyMaterial, st.ck, 2),
               !.n = 0]

encryptAndHash(st, plaintext) ==
    IF st.k = NoBuffer
      THEN [st |-> mixHash(st, plaintext), out |-> plaintext]
      ELSE LET ciphertext == gcmCiphertext(st.k, plaintext)
               result == [ciphertext |-> ciphertext,
                          tag |-> gcmTag(st.k, st.h, ciphertext)]
           IN  [st |-> [mixHash(st, bytesOf(result)) EXCEPT !.n = @ + 1],
                out |-> result]

decryptAndHash(st, part) ==
    IF st.k = NoBuffer
      THEN [st |-> mixHash(st, bytesOf(part)), out |-> bytesOf(part)]
      ELSE LET plaintext == gcmOpen(st.k, st.h, part.ciphertext, part.tag) IN
           IF plaintext = Throw
             THEN [st |-> st, out |-> Throw]        \* decipher.final() throws
             ELSE [st |-> [mixHash(st, bytesOf(part)) EXCEPT !.n = @ + 1],
                   out |-> plaintext]

\* split(): this.hkdf is an async function and split does not await it, so
\* output is a Promise and output.slice is not a function: a TypeError
split(st) == Throw

LocalStaticPrivate == <<12>>
LocalStaticPublic == <<11>>
EphemeralPrivate == <<22>>
EphemeralPublic == <<21>>
RemoteEphemeralPublic == <<31>>
RemoteStaticPublic == <<41>>

\* startHandshake(localStaticPrivate, localStaticPublic), from the state
\* initialize() leaves when it had to be called
startHandshake(st) ==
    LET s1 == [st EXCEPT !.localStatic = LocalStaticPublic,
                         !.localEphemeral = EphemeralPublic]
    IN  [st |-> mixHash(s1, EphemeralPublic), out |-> EphemeralPublic]

privateOf(publicKey) ==
    IF publicKey = EphemeralPublic THEN EphemeralPrivate ELSE LocalStaticPrivate

processHandshakeMessage1(st, remoteEphemeralPublic, payload) ==
    LET s1 == mixHash([st EXCEPT !.remoteEphemeral = remoteEphemeralPublic],
                      remoteEphemeralPublic)
    IN  IF st.localEphemeral = NoBuffer
          THEN [st |-> s1, out |-> Throw]     \* localEphemeral is null
          ELSE LET dh1 == diffieHellman(privateOf(st.localEphemeral),
                                        remoteEphemeralPublic)
               IN  decryptAndHash(mixKey(s1, dh1), payload)

\* authFailure: a decryptAndHash under a cipher key threw
processHandshakeMessage2(st, message) ==
    LET r1 == decryptAndHash(st, message.encryptedStatic) IN
    IF r1.out = Throw
      THEN [st |-> r1.st, out |-> Throw, complete |-> FALSE, authFailure |-> TRUE]
    ELSE LET s1 == [r1.st EXCEPT !.remoteStatic = r1.out] IN
         IF st.localEphemeral = NoBuffer          \* localEphemeral is null
           THEN [st |-> s1, out |-> Throw, complete |-> FALSE, authFailure |-> FALSE]
           ELSE LET dh2 == diffieHellman(privateOf(st.localEphemeral), r1.out)
                    r2 == decryptAndHash(mixKey(s1, dh2), message.payload)
                IN  [st |-> r2.st, out |-> r2.out, complete |-> r2.out # Throw,
                     authFailure |-> r2.out = Throw]

\* getTransportKeys(): what it returns
getTransportKeys(st, complete) ==
    IF ~complete THEN Throw           \* 'Handshake not complete'
    ELSE split(st)

(* The messages of an honest responder.  It seals them under the key and  *)
(* transcript hash an initiator holds that called startHandshake once and *)
(* accepted everything sent before; the network delivers a message, a     *)
(* copy with a damaged tag, or either of them again.                      *)

NoisePayloads == { <<104, 105>>, <<>> }

sealFor(st, plaintext) ==
    [ ciphertext |-> gcmCiphertext(st.k, plaintext),
      tag |-> gcmTag(st.k, st.h, gcmCiphertext(st.k, plaintext)) ]

corrupted(part) == [part EXCEPT !.tag.a = <<-51>>]

startedState == startHandshake(initialHandshakeState).st

peerPayload1(plaintext) ==
    LET s1 == mixHash(startedState, RemoteEphemeralPublic)
        dh1 == diffieHellman(EphemeralPrivate, RemoteEphemeralPublic)
    IN  sealFor(mixKey(s1, dh1), plaintext)

peerMessage2(plaintext1, plaintext2) ==
    LET st == processHandshakeMessage1(startedState, RemoteEphemeralPublic,
                                       peerPayload1(plaintext1)).st
        encryptedStatic == sealFor(st, RemoteStaticPublic)
        s1 == decryptAndHash(st, encryptedStatic).st
        dh2 == diffieHellman(EphemeralPrivate, RemoteStaticPublic)
    IN  [ encryptedStatic |-> encryptedStatic,
          payload |-> sealFor(mixKey(s1, dh2), plaintext2) ]

Messages1 ==
    LET honest == { peerPayload1(p) : p \in NoisePayloads }
    IN  honest \cup { corrupted(m) : m \in honest }

Messages2 ==
    LET honest == { peerMessage2(p1, p2) : p1, p2 \in NoisePayloads }
    IN  honest
        \cup { [m EXCEPT !.encryptedStatic = corrupted(@)] : m \in honest }
        \cup { [m EXCEPT !.payload = corrupted(@)] : m \in honest }

MaxNoiseCalls == 5

\* lastPrim when the last call was not one of the three primitives; n, keyed:
\* handshakeState.n and whether handshakeState.k was set when the call began
NoPrim == [op |-> "none", n |-> 0, keyed |-> FALSE, threw |-> FALSE]

NoiseIdle ==
    /\ hs = NoBuffer
    /\ isInitialized = FALSE
    /\ isHandshakeComplete = FALSE
    /\ noiseOut = NoBuffer
    /\ authFailed = FALSE
    /\ noiseCalls = 0
    /\ lastPrim = NoPrim
    /\ splitRan = FALSE

NoiseInit == NoiseIdle

NoiseInitialize ==
    /\ noiseCalls < MaxNoiseCalls
    /\ splitRan' = FALSE
    /\ lastPrim' = NoPrim
    /\ hs' = initialHandshakeState
    /\ isInitialized' = TRUE
    /\ noiseOut' = NoBuffer
    /\ authFailed' = FALSE          \* a new handshake state
    /\ noiseCalls' = noiseCalls + 1
    /\ UNCHANGED <<isHandshakeComplete>>

NoiseStartHandshake ==
    /\ noiseCalls < MaxNoiseCalls
    /\ splitRan' = (isInitialized /\ splitRan)
    /\ lastPrim' = NoPrim
    /\ LET r == startHandshake(IF isInitialized THEN hs ELSE initialHandshakeState)
       IN  /\ hs' = r.st
           /\ noiseOut' = r.out
    /\ authFailed' = (isInitialized /\ authFailed)
    /\ isInitialized' = TRUE
    /\ noiseCalls' = noiseCalls + 1
    /\ UNCHANGED <<isHandshakeComplete>>

\* handshakeState is null exactly when isInitialized is false; the first
\* statement of either handler then throws
NoiseProcessMessage1 ==
    /\ noiseCalls < MaxNoiseCalls
    /\ UNCHANGED <<splitRan>>
    /\ lastPrim' = NoPrim
    /\ \E payload \in Messages1 :
         IF ~isInitialized
           THEN /\ noiseOut' = Throw
                /\ UNCHANGED <<hs, authFailed>>
           ELSE LET r == processHandshakeMessage1(hs, RemoteEphemeralPublic, payload)
                IN  /\ hs' = r.st
                    /\ noiseOut' = r.out
                    \* decryptAndHash threw under a cipher key
                    /\ authFailed' = (authFailed \/ (hs.localEphemeral # NoBuffer
                                                      /\ r.out = Throw))
    /\ noiseCalls' = noiseCalls + 1
    /\ UNCHANGED <<isInitialized, isHandshakeComplete>>

NoiseProcessMessage2 ==
    /\ noiseCalls < MaxNoiseCalls
    /\ UNCHANGED <<splitRan>>
    /\ lastPrim' = NoPrim
    /\ \E message \in Messages2 :
         IF ~isInitialized
           THEN /\ noiseOut' = Throw
                /\ UNCHANGED <<hs, authFailed, isHandshakeComplete>>
           ELSE LET r == processHandshakeMessage2(hs, message)
                IN  /\ hs' = r.st
                    /\ noiseOut' = r.out
                    /\ isHandshakeComplete' = (isHandshakeComplete \/ r.complete)
                    /\ authFailed' = (authFailed \/ r.authFailure)
    /\ noiseCalls' = noiseCalls + 1
    /\ UNCHANGED <<isInitialized>>

NoiseGetTransportKeys ==
    /\ noiseCalls < MaxNoiseCalls
    /\ splitRan' = (splitRan \/ isHandshakeComplete)
    /\ lastPrim' = NoPrim
    /\ noiseOut' = getTransportKeys(hs, isHandshakeComplete)
    /\ noiseCalls' = noiseCalls + 1
    /\ UNCHANGED <<hs, isInitialized, isHandshakeComplete, authFailed>>

NoiseReset ==
    /\ noiseCalls < MaxNoiseCalls
    /\ splitRan' = FALSE
    /\ lastPrim' = NoPrim
    /\ hs' = NoBuffer
    /\ isHandshakeComplete' = FALSE
    /\ isInitialized' = FALSE
    /\ noiseOut' = NoBuffer
    /\ authFailed' = FALSE
    /\ noiseCalls' = noiseCalls + 1

(* mixKey, encryptAndHash and decryptAndHash are methods of the class like *)
(* the handlers above and can be called on their own.  All three read      *)
(* this.handshakeState first and throw on null.                            *)

InputKeys == { diffieHellman(EphemeralPrivate, RemoteEphemeralPublic),
               diffieHellman(EphemeralPrivate, RemoteStaticPublic) }

\* what a peer holding the same handshake state sends, and damaged copies
Sealed(st) ==
    LET honest == { sealFor(st, p) : p \in NoisePayloads }
    IN  honest \cup { corrupted(m) : m \in honest }

NoiseMixKey ==
    /\ noiseCalls < MaxNoiseCalls
    /\ UNCHANGED <<splitRan>>
    /\ \E inputKeyMaterial \in InputKeys :
         IF ~isInitialized
           THEN /\ noiseOut' = Throw
                /\ lastPrim' = NoPrim
                /\ UNCHANGED <<hs>>
           ELSE /\ hs' = mixKey(hs, inputKeyMaterial)
                /\ noiseOut' = NoBuffer
                /\ lastPrim' = [op |-> "mixKey", n |-> hs.n,
                               keyed |-> hs.k # NoBuffer, threw |-> FALSE]
    /\ noiseCalls' = noiseCalls + 1
    /\ UNCHANGED <<isInitialized, isHandshakeComplete, authFailed>>

NoiseEncryptAndHash ==
    /\ noiseCalls < MaxNoiseCalls
    /\ UNCHANGED <<splitRan>>
    /\ \E plaintext \in NoisePayloads :
         IF ~isInitialized
           THEN /\ noiseOut' = Throw
                /\ lastPrim' = NoPrim
                /\ UNCHANGED <<hs>>
           ELSE LET r == encryptAndHash(hs, plaintext)
                IN  /\ hs' = r.st
                    /\ noiseOut' = r.out
                    /\ lastPrim' = [op |-> "encryptAndHash", n |-> hs.n,
                                   keyed |-> hs.k # NoBuffer, threw |-> FALSE]
    /\ noiseCalls' = noiseCalls + 1
    /\ UNCHANGED <<isInitialized, isHandshakeComplete, authFailed>>

NoiseDecryptAndHash ==
    /\ noiseCalls < MaxNoiseCalls
    /\ UNCHANGED <<splitRan>>
    /\ IF ~isInitialized
         THEN /\ noiseOut' = Throw
              /\ lastPrim' = NoPrim
              /\ UNCHANGED <<hs, authFailed>>
         ELSE \E ciphertext \in Sealed(hs) :
                LET r == decryptAndHash(hs, ciphertext)
                IN  /\ hs' = r.st
                    /\ noiseOut' = r.out
                    /\ authFailed' = (authFailed \/ r.out = Throw)
                    /\ lastPrim' = [op |-> "decryptAndHash", n |-> hs.n,
                                   keyed |-> hs.k # NoBuffer,
                                   threw |-> r.out = Throw]
    /\ noiseCalls' = noiseCalls + 1
    /\ UNCHANGED <<isInitialized, isHandshakeComplete>>

---------------------------------------------------------------------------
(* src/src/core/production-core.js: the outbound rate-limit queue of       *)
(* ProductionWhatsAppCore.                                                 *)
(*                                                                         *)
(* Time is Date.now() in milliseconds.  A queue item is the number of its  *)
(* sendMessage call; outcome[i] is the state of the promise that call      *)
(* returned.  An async function runs synchronously up to an await that     *)
(* has to wait; what follows the await is a microtask, and a timer         *)
(* callback only starts when no microtask is left.  inflight holds the     *)
(* items whose _processSendMessage has such a continuation outstanding.    *)

rateLimitDelay == 1000
StartTime == 5000
MaxClock == 8000
MaxMessages == 3
ClockSteps == {400, 1000}

\* a gate that lets every tick through
rateLimitedNever(now, last) == FALSE

\* the gate of _processRateLimitQueue
rateLimited(now, last) == now - last < rateLimitDelay

\* rateLimitQueue.pop(): the newest item
popItem(queue) == queue[Len(queue)]

\* rateLimitQueue.shift(): the item it returns
shiftItem(queue) == Head(queue)

\* a shift() that leaves the item in the array
shiftedKeepsItem(queue, item) == queue

\* rateLimitQueue after shift() returned item
shifted(queue, item) == SelectSeq(queue, LAMBDA i : i # item)

\* no continuation is waiting: the event loop may run the next timer callback
microtasksDrained == inflight = <<>>

QueueIdle ==
    /\ isReady = FALSE
    /\ coreState = "UNPAIRED"
    /\ rateLimitQueue = <<>>
    /\ lastMessageTime = 0
    /\ clock = StartTime
    /\ rateLimitInterval = TRUE
    /\ sessionKeys = FALSE
    /\ wsConnected = FALSE
    /\ outcome = <<>>
    /\ socketLog = <<>>
    /\ dequeueLog = <<>>
    /\ inflight = <<>>

QueueInit == QueueIdle

\* Date.now() moves on
AdvanceClock ==
    /\ \E d \in ClockSteps :
         /\ clock + d <= MaxClock
         /\ clock' = clock + d
    /\ UNCHANGED <<isReady, coreState, rateLimitQueue, lastMessageTime,
                   rateLimitInterval, sessionKeys, wsConnected, outcome,
                   socketLog, dequeueLog, inflight>>

\* the websocket opens (WebSocketClient.connect)
WebSocketConnected ==
    /\ coreState # "DESTROYED"
    /\ ~wsConnected
    /\ wsConnected' = TRUE
    /\ UNCHANGED <<isReady, coreState, rateLimitQueue, lastMessageTime, clock,
                   rateLimitInterval, sessionKeys, outcome,
                   socketLog, dequeueLog, inflight>>

\* _handleAuthSuccess: a message that arrived on the open websocket
HandleAuthSuccess ==
    /\ coreState # "DESTROYED"
    /\ wsConnected
    /\ ~isReady
    /\ coreState' = "CONNECTED"
    /\ isReady' = TRUE
    /\ UNCHANGED <<rateLimitQueue, lastMessageTime, clock, rateLimitInterval,
                   sessionKeys, wsConnected, outcome, socketLog, dequeueLog,
                   inflight>>

\* _onWebSocketDisconnected
OnWebSocketDisconnected ==
    /\ coreState # "DESTROYED"
    /\ wsConnected
    /\ wsConnected' = FALSE
    /\ coreState' = "UNPAIRED"
    /\ isReady' = FALSE
    /\ UNCHANGED <<rateLimitQueue, lastMessageTime, clock, rateLimitInterval,
                   sessionKeys, outcome, socketLog, dequeueLog, inflight>>

\* CryptoHandler.performKeyExchange sets sessionKeys
PerformKeyExchange ==
    /\ ~sessionKeys
    /\ sessionKeys' = TRUE
    /\ UNCHANGED <<isReady, coreState, rateLimitQueue, lastMessageTime, clock,
                   rateLimitInterval, wsConnected, outcome,
                   socketLog, dequeueLog, inflight>>

\* sendMessage(chatId, content): throws when not ready, else queues the item
\* and returns its pending promise
SendMessage ==
    /\ Len(outcome) < MaxMessages
    /\ isReady
    /\ rateLimitQueue' = Append(rateLimitQueue, Len(outcome) + 1)
    /\ outcome' = Append(outcome, "pending")
    /\ UNCHANGED <<isReady, coreState, lastMessageTime, clock,
                   rateLimitInterval, sessionKeys, wsConnected,
                   socketLog, dequeueLog, inflight>>

\* the setInterval callback: _processRateLimitQueue up to its first await.
\* _processSendMessage builds the message and calls crypto.encryptMessage,
\* whose encrypt throws without session keys.
RateLimitTick ==
    /\ rateLimitInterval
    /\ microtasksDrained
    /\ IF rateLimitQueue = <<>> \/ rateLimited(clock, lastMessageTime)
         THEN UNCHANGED <<rateLimitQueue, lastMessageTime, dequeueLog, inflight>>
         ELSE LET item == shiftItem(rateLimitQueue) IN
              /\ rateLimitQueue' = shifted(rateLimitQueue, item)
              /\ lastMessageTime' = clock
              /\ dequeueLog' = Append(dequeueLog, [item |-> item, at |-> clock])
              /\ inflight' = Append(inflight,
                                    [item |-> item,
                                     pc |-> IF sessionKeys THEN "encrypted"
                                                           ELSE "failed"])
    /\ UNCHANGED <<isReady, coreState, clock, rateLimitInterval, sessionKeys,
                   wsConnected, outcome, socketLog>>

\* after await crypto.encryptMessage: websocket.send hands the bytes to the
\* socket, or throws when the websocket is not connected
ContinueSend ==
    /\ \E n \in 1 .. Len(inflight) :
         /\ inflight[n].pc = "encrypted"
         /\ IF wsConnected
              THEN /\ socketLog' = Append(socketLog, inflight[n].item)
                   /\ inflight' = [inflight EXCEPT ![n].pc = "sent"]
              ELSE /\ inflight' = [inflight EXCEPT ![n].pc = "failed"]
                   /\ UNCHANGED socketLog
    /\ UNCHANGED <<isReady, coreState, rateLimitQueue, lastMessageTime, clock,
                   rateLimitInterval, sessionKeys, wsConnected, outcome,
                   dequeueLog>>

\* after await this._processSendMessage: item.resolve(result), or
\* item.reject(error) in the catch
SettleItem ==
    /\ \E n \in 1 .. Len(inflight) :
         /\ inflight[n].pc \in {"sent", "failed"}
         /\ outcome' = [outcome EXCEPT ![inflight[n].item] =
                          IF inflight[n].pc = "sent" THEN "resolved" ELSE "rejected"]
         /\ inflight' = SubSeq(inflight, 1, n - 1)
                        \o SubSeq(inflight, n + 1, Len(inflight))
    /\ UNCHANGED <<isReady, coreState, rateLimitQueue, lastMessageTime, clock,
                   rateLimitInterval, sessionKeys, wsConnected, socketLog,
                   dequeueLog>>

\* destroy(): clears both intervals, disconnects the websocket, replaces the
\* queues by empty arrays, and marks the client DESTROYED
Destroy ==
    /\ coreState # "DESTROYED"
    /\ rateLimitInterval' = FALSE
    /\ wsConnected' = FALSE
    /\ rateLimitQueue' = <<>>
    /\ isReady' = FALSE
    /\ coreState' = "DESTROYED"
    /\ UNCHANGED <<lastMessageTime, clock, sessionKeys, outcome, socketLog,
                   dequeueLog, inflight>>

---------------------------------------------------------------------------
(* src/unnamed/part_003: class WebSocketClient, and src/unnamed/part_005:  *)
(* class WhatsAppCore, which owns one WebSocketClient (this.ws) and        *)
(* listens to its 'open', 'close' and 'error' events.                      *)
(*                                                                         *)
(* socks holds the WebSocket objects of the ws library that still have a   *)
(* handshake or an event outstanding; every one of them carries the four   *)
(* handlers _createConnection attached, which close over the client.       *)
(* A socket is                                                             *)
(*   "connecting"  handshake in progress                                   *)
(*   "open"        handshake done                                          *)
(*   "aborting"    close() was called during the handshake: the library    *)
(*                 emits 'error' and then 'close'                          *)
(*   "closing"     close() was called on the open socket: 'close' follows  *)
(*   "failed"      'error' was emitted: 'close' follows                    *)
(*   "closed"      'close' was emitted and this.ws still refers to it      *)
(*   "free"        no such object                                          *)
(* waiter names the caller whose await holds the promise _createConnection *)
(* returned for that socket: "init" (initialize -> connect), "client"      *)
(* (WebSocketClient._attemptReconnection), "core"                          *)
(* (WhatsAppCore._attemptReconnection -> connect), or "none" once the      *)
(* promise is settled.  A setTimeout handle is never kept, so a timer is   *)
(* only counted: it cannot be cancelled.  did is the set of effects the    *)
(* last step had: "create" (new WebSocket), "schedule" (the client set a   *)
(* reconnect timer), "coreSchedule" (the core set one of its timers),      *)
(* "reconnect_failed" (the client emitted it).  connectFailures counts    *)
(* the sockets that failed under the connect() call of initialize().      *)

maxReconnectAttempts == 10
reconnectDelay == 1000
maxReconnectDelay == 30000
endpoints == 5              \* this.endpoints.length

MaxSockets == 2

SockIds == 1..MaxSockets
FreeSock == [st |-> "free", waiter |-> "none"]

mathMin(a, b) == IF a <= b THEN a ELSE b

\* _scheduleReconnection: the delay of reconnect attempt k
uncappedDelay(k) == reconnectDelay * Pow2(k - 1)
backoffDelay(k) == mathMin(reconnectDelay * Pow2(k - 1), maxReconnectDelay)

\* src/final-production-client.js, handleDisconnect: the delay of attempt k
handleDisconnectDelay(k) == mathMin(1000 * Pow2(k - 1), 30000)

\* src/src/core/production-core.js, WebSocketHandler._attemptReconnection:
\* the delay of attempt k (reconnectDelay 1000, maxReconnectDelay 30000)
handlerReconnectDelay(k) == mathMin(1000 * Pow2(k - 1), 30000)

\* the socket objects once this.ws no longer refers to the one it held
release(s) == [i \in SockIds |-> IF s[i].st = "closed" THEN FreeSock ELSE s[i]]

hasFree(s) == \E i \in SockIds : s[i].st = "free"
firstFree(s) == CHOOSE i \in SockIds :
                    /\ s[i].st = "free"
                    /\ \A j \in SockIds : s[j].st = "free" => i <= j

live(s) == {i \in SockIds : s[i].st \in {"connecting", "open"}}

\* _createConnection(): this.ws = new WebSocket(endpoint), handlers attached
createConnection(w) ==
    /\ hasFree(release(socks))
    /\ socks' = [release(socks) EXCEPT ![firstFree(release(socks))] =
                     [st |-> "connecting", waiter |-> w]]
    /\ wsRef' = firstFree(release(socks))

\* _scheduleReconnection(), on top of the effects e the handler already had
scheduleReconnection(attempts, timers, e) ==
    IF attempts >= maxReconnectAttempts
    THEN /\ reconnectAttempts' = attempts
         /\ reconnectTimers' = timers
         /\ gaveUp' = TRUE
         /\ did' = e \cup {"reconnect_failed"}
         /\ UNCHANGED lastDelay
    ELSE /\ reconnectAttempts' = attempts + 1
         /\ reconnectTimers' = timers + 1
         /\ lastDelay' = <<attempts + 1, backoffDelay(attempts + 1)>>
         /\ did' = e \cup {"schedule"}
         /\ UNCHANGED gaveUp

\* WebSocketClient.connect() called by w: returns at once when this.ws is
\* set and isConnected, else awaits _createConnection()
connect(w) ==
    IF wsRef # 0 /\ isConnected
    THEN /\ did' = {}
         /\ UNCHANGED <<socks, wsRef>>
    ELSE /\ createConnection(w)
         /\ did' = {"create"}

ConnIdle ==
    /\ socks = [i \in SockIds |-> FreeSock]
    /\ wsRef = 0
    /\ isConnected = FALSE
    /\ reconnectAttempts = 0
    /\ currentEndpointIndex = 0
    /\ reconnectTimers = 0
    /\ lastDelay = <<0, 0>>
    /\ gaveUp = FALSE
    /\ state = "UNPAIRED"
    /\ closeTimers = 0
    /\ retryTimers = 0
    /\ initResult = "none"
    /\ connectFailures = 0
    /\ destroyCalled = FALSE
    /\ did = {}

ConnInit == ConnIdle

\* WhatsAppCore.initialize(): session.load(), state = UNPAIRED, then
\* await this.ws.connect(); an error of connect is rethrown
CoreInitialize ==
    /\ ~destroyCalled
    /\ initResult # "pending"
    /\ state' = "UNPAIRED"
    /\ connect("init")
    /\ initResult' = IF wsRef # 0 /\ isConnected THEN "resolved" ELSE "pending"
    /\ connectFailures' = 0
    /\ gaveUp' = FALSE
    /\ UNCHANGED <<isConnected, reconnectAttempts, currentEndpointIndex,
                   reconnectTimers, lastDelay, closeTimers, retryTimers,
                   destroyCalled>>

\* the 'open' handler of a socket: isConnected, reconnectAttempts = 0,
\* emit('open') -> WhatsAppCore._onWebSocketOpen -> _resumeSession or
\* _startAuthFlow, both of which begin with state = UNPAIRED; resolve()
SocketOpen(i) ==
    /\ socks[i].st = "connecting"
    /\ isConnected' = TRUE
    /\ reconnectAttempts' = 0
    /\ state' = "UNPAIRED"
    /\ initResult' = IF socks[i].waiter = "init" THEN "resolved" ELSE initResult
    /\ socks' = [socks EXCEPT ![i] = [st |-> "open", waiter |-> "none"]]
    /\ did' = {}
    /\ UNCHANGED <<wsRef, currentEndpointIndex, reconnectTimers, lastDelay,
                   gaveUp, closeTimers, retryTimers, connectFailures,
                   destroyCalled>>

\* the 'error' handler of a socket: emit('error') ->
\* WhatsAppCore._onWebSocketError, then reject(error).  A pending promise
\* rejects into its awaiter: connect() rethrows to initialize;
\* WebSocketClient._attemptReconnection catches and calls
\* _scheduleReconnection(); WhatsAppCore._attemptReconnection catches and
\* sets its 10000 ms timer.
SocketError(i) ==
    /\ socks[i].st \in {"connecting", "open", "aborting"}
    /\ socks' = [socks EXCEPT ![i] = [st |-> "failed", waiter |-> "none"]]
    /\ initResult' = IF socks[i].waiter = "init" THEN "rejected" ELSE initResult
    /\ connectFailures' = IF socks[i].waiter = "init" THEN connectFailures + 1
                          ELSE connectFailures
    /\ IF socks[i].waiter = "client"
       THEN scheduleReconnection(reconnectAttempts, reconnectTimers, {})
       ELSE /\ did' = IF socks[i].waiter = "core" THEN {"coreSchedule"} ELSE {}
            /\ UNCHANGED <<reconnectAttempts, reconnectTimers, lastDelay, gaveUp>>
    /\ IF socks[i].waiter = "core"
       THEN retryTimers' = retryTimers + 1
       ELSE UNCHANGED retryTimers
    /\ UNCHANGED <<wsRef, isConnected, currentEndpointIndex, state,
                   closeTimers, destroyCalled>>

\* the 'close' handler of a socket: isConnected = false, emit('close') ->
\* WhatsAppCore._onWebSocketClose (state = UNPAIRED, 5000 ms timer), then
\* _scheduleReconnection()
SocketClose(i) ==
    /\ socks[i].st \in {"open", "closing", "failed"}
    /\ socks' = [socks EXCEPT ![i] =
                     IF wsRef = i THEN [st |-> "closed", waiter |-> "none"]
                     ELSE FreeSock]
    /\ isConnected' = FALSE
    /\ state' = "UNPAIRED"
    /\ closeTimers' = closeTimers + 1
    /\ scheduleReconnection(reconnectAttempts, reconnectTimers, {"coreSchedule"})
    /\ UNCHANGED <<wsRef, currentEndpointIndex, retryTimers, initResult, connectFailures,
                   destroyCalled>>

\* the timer of _scheduleReconnection fires: _attemptReconnection() moves
\* to the next endpoint and awaits _createConnection()
ReconnectTimerFires ==
    /\ reconnectTimers > 0
    /\ reconnectTimers' = reconnectTimers - 1
    /\ currentEndpointIndex' = (currentEndpointIndex + 1) % endpoints
    /\ createConnection("client")
    /\ did' = {"create"}
    /\ UNCHANGED <<isConnected, reconnectAttempts, lastDelay, gaveUp, state,
                   closeTimers, retryTimers, initResult, connectFailures, destroyCalled>>

\* WhatsAppCore._attemptReconnection(): nothing when DESTROYED, else
\* await this.ws.connect()
coreAttemptReconnection ==
    IF state = "DESTROYED"
    THEN /\ did' = {}
         /\ UNCHANGED <<socks, wsRef>>
    ELSE connect("core")

\* the 5000 ms timer of _onWebSocketClose fires
CoreCloseTimerFires ==
    /\ closeTimers > 0
    /\ closeTimers' = closeTimers - 1
    /\ coreAttemptReconnection
    /\ UNCHANGED <<isConnected, reconnectAttempts, currentEndpointIndex,
                   reconnectTimers, lastDelay, gaveUp, state, retryTimers,
                   initResult, connectFailures, destroyCalled>>

\* the 10000 ms timer of WhatsAppCore._attemptReconnection fires
CoreRetryTimerFires ==
    /\ retryTimers > 0
    /\ retryTimers' = retryTimers - 1
    /\ coreAttemptReconnection
    /\ UNCHANGED <<isConnected, reconnectAttempts, currentEndpointIndex,
                   reconnectTimers, lastDelay, gaveUp, state, closeTimers,
                   initResult, connectFailures, destroyCalled>>

\* ws.close(1000, 'Normal closure') on the socket this.ws refers to
closeSocket(s) ==
    [st |-> CASE s.st = "connecting" -> "aborting"
              [] s.st = "open" -> "closing"
              [] OTHER -> s.st,
     waiter |-> s.waiter]

\* WebSocketClient.disconnect(): close this.ws and forget it
disconnect ==
    /\ socks' = IF wsRef = 0 THEN socks
                ELSE release([socks EXCEPT ![wsRef] = closeSocket(socks[wsRef])])
    /\ wsRef' = 0
    /\ isConnected' = FALSE
    /\ reconnectAttempts' = 0

\* WhatsAppCore.destroy(): state = DESTROYED, await this.ws.disconnect(),
\* this.removeAllListeners() (the listeners of the core's own events)
CoreDestroy ==
    /\ ~destroyCalled
    /\ state' = "DESTROYED"
    /\ disconnect
    /\ destroyCalled' = TRUE
    /\ did' = {}
    /\ UNCHANGED <<currentEndpointIndex, reconnectTimers, lastDelay, gaveUp,
                   closeTimers, retryTimers, initResult, connectFailures>>

\* the auth component emits 'authenticated' on a message of the server:
\* _onAuthenticated sets state = CONNECTED
CoreAuthenticated ==
    /\ \E i \in SockIds : socks[i].st = "open"
    /\ state' = "CONNECTED"
    /\ did' = {}
    /\ UNCHANGED <<socks, wsRef, isConnected, reconnectAttempts,
                   currentEndpointIndex, reconnectTimers, lastDelay, gaveUp,
                   closeTimers, retryTimers, initResult, connectFailures, destroyCalled>>

\* a 'stream:error' message of the server: _handleStreamError sets
\* state = UNPAIRED
CoreStreamError ==
    /\ \E i \in SockIds : socks[i].st = "open"
    /\ state' = "UNPAIRED"
    /\ did' = {}
    /\ UNCHANGED <<socks, wsRef, isConnected, reconnectAttempts,
                   currentEndpointIndex, reconnectTimers, lastDelay, gaveUp,
                   closeTimers, retryTimers, initResult, connectFailures, destroyCalled>>

---------------------------------------------------------------------------
(* src/src/core/production-core.js: ProductionWhatsAppCore.initialize,     *)
(* _resumeSession and _startFreshAuth.                                     *)
(*                                                                         *)
(* initialize() is an async function: rsPc is the await it has reached.    *)
(* Each awaited call (crypto.restoreKeys, websocket.connect,               *)
(* websocket.send, crypto.generateKeys, startQRAuth / startPairingAuth)    *)
(* either returns or throws; the network and the key store decide which.   *)
(* The server answers a resume message or an authentication with a         *)
(* 'success' or a 'failure' stanza, which _handleProtocolMessage           *)
(* dispatches.  The 'connected' listener of the core is left out: the      *)
(* WebSocketClient emits 'open'.                                           *)

AuthMethods == {"qr", "pairing"}
LoadResults == {"none", "invalid", "valid"}   \* what session.load() found

ResumeIdle ==
    /\ rsPc = "idle"
    /\ rsAuthMethod = "qr"
    /\ rsSession = "none"
    /\ rsWsOpen = FALSE
    /\ rsState = "UNPAIRED"
    /\ rsInfo = FALSE
    /\ rsIsReady = FALSE
    /\ rsResumeSent = FALSE
    /\ rsAuthFlow = "none"
    /\ rsFreshCalled = FALSE
    /\ rsResumeFailure = "none"
    /\ rsResult = "none"

\* new ProductionWhatsAppCore(options): options.authMethod is the caller's
ResumeInit ==
    /\ rsPc = "idle"
    /\ rsAuthMethod \in AuthMethods
    /\ rsSession = "none"
    /\ rsWsOpen = FALSE
    /\ rsState = "UNPAIRED"
    /\ rsInfo = FALSE
    /\ rsIsReady = FALSE
    /\ rsResumeSent = FALSE
    /\ rsAuthFlow = "none"
    /\ rsFreshCalled = FALSE
    /\ rsResumeFailure = "none"
    /\ rsResult = "none"

\* the catch of _resumeSession: await this._startFreshAuth()
resumeFailedAt(step) ==
    /\ rsResumeFailure' = step
    /\ rsFreshCalled' = TRUE
    /\ rsPc' = "freshConnect"

\* _startFreshAuth rethrows, and so does initialize()
initializeThrows ==
    /\ rsPc' = "done"
    /\ rsResult' = "rejected"

\* initialize() up to its first await on the resume or the fresh path:
\* crypto.initialize(), session.load(), _validateSession
RsInitialize ==
    /\ rsPc = "idle"
    /\ rsResult = "none"
    /\ \E cryptoOk \in BOOLEAN, found \in LoadResults :
          IF ~cryptoOk
          THEN /\ initializeThrows
               /\ UNCHANGED <<rsSession, rsFreshCalled>>
          ELSE /\ rsSession' = found
               /\ rsResult' = "pending"
               /\ rsPc' = IF found = "valid" THEN "restoreKeys" ELSE "freshConnect"
               /\ rsFreshCalled' = (found # "valid")
    /\ UNCHANGED <<rsAuthMethod, rsWsOpen, rsState, rsInfo, rsIsReady,
                   rsResumeSent, rsAuthFlow, rsResumeFailure>>

\* _resumeSession: await this.crypto.restoreKeys(sessionData.keys)
RsRestoreKeys ==
    /\ rsPc = "restoreKeys"
    /\ \E ok \in BOOLEAN :
          IF ok THEN /\ rsPc' = "resumeConnect"
                     /\ UNCHANGED <<rsResumeFailure, rsFreshCalled>>
          ELSE resumeFailedAt("restoreKeys")
    /\ UNCHANGED <<rsAuthMethod, rsSession, rsWsOpen, rsState, rsInfo,
                   rsIsReady, rsResumeSent, rsAuthFlow, rsResult>>

\* _resumeSession: await this.websocket.connect()
RsResumeConnect ==
    /\ rsPc = "resumeConnect"
    /\ \E ok \in BOOLEAN :
          IF ok THEN /\ rsPc' = "resumeSend"
                     /\ rsWsOpen' = TRUE
                     /\ UNCHANGED <<rsResumeFailure, rsFreshCalled>>
          ELSE /\ resumeFailedAt("connect")
               /\ UNCHANGED rsWsOpen
    /\ UNCHANGED <<rsAuthMethod, rsSession, rsState, rsInfo, rsIsReady,
                   rsResumeSent, rsAuthFlow, rsResult>>

\* _resumeSession: createResumeMessage, await this.websocket.send(...),
\* this.info = sessionData, _setState(CONNECTED); initialize() returns.
\* send throws 'WebSocket not connected' when the socket has closed.
RsResumeSend ==
    /\ rsPc = "resumeSend"
    /\ \E ok \in BOOLEAN :
          IF ok /\ rsWsOpen THEN /\ rsResumeSent' = TRUE
                     /\ rsInfo' = TRUE
                     /\ rsState' = "CONNECTED"
                     /\ rsPc' = "done"
                     /\ rsResult' = "resolved"
                     /\ UNCHANGED <<rsResumeFailure, rsFreshCalled>>
          ELSE /\ resumeFailedAt("send")
               /\ UNCHANGED <<rsResumeSent, rsInfo, rsState, rsResult>>
    /\ UNCHANGED <<rsAuthMethod, rsSession, rsWsOpen, rsIsReady, rsAuthFlow>>

\* _startFreshAuth: await this.websocket.connect(), which returns at once
\* when the socket is open
RsFreshConnect ==
    /\ rsPc = "freshConnect"
    /\ \E ok \in BOOLEAN :
          IF ok \/ rsWsOpen
          THEN /\ rsPc' = "generateKeys"
               /\ rsWsOpen' = TRUE
               /\ UNCHANGED rsResult
          ELSE /\ initializeThrows
               /\ UNCHANGED rsWsOpen
    /\ UNCHANGED <<rsAuthMethod, rsSession, rsState, rsInfo, rsIsReady,
                   rsResumeSent, rsAuthFlow, rsFreshCalled, rsResumeFailure>>

\* _startFreshAuth: await this.crypto.generateKeys()
RsGenerateKeys ==
    /\ rsPc = "generateKeys"
    /\ \E ok \in BOOLEAN :
          IF ok THEN rsPc' = "startAuth" /\ UNCHANGED rsResult
          ELSE initializeThrows
    /\ UNCHANGED <<rsAuthMethod, rsSession, rsWsOpen, rsState, rsInfo,
                   rsIsReady, rsResumeSent, rsAuthFlow, rsFreshCalled,
                   rsResumeFailure>>

\* _startFreshAuth: startPairingAuth(phoneNumber) or startQRAuth();
\* initialize() returns
RsStartAuth ==
    /\ rsPc = "startAuth"
    /\ \E ok \in BOOLEAN :
          IF ok THEN /\ rsAuthFlow' = rsAuthMethod
                     /\ rsPc' = "done"
                     /\ rsResult' = "resolved"
          ELSE /\ initializeThrows
               /\ UNCHANGED rsAuthFlow
    /\ UNCHANGED <<rsAuthMethod, rsSession, rsWsOpen, rsState, rsInfo,
                   rsIsReady, rsResumeSent, rsFreshCalled, rsResumeFailure>>

\* the server has something to answer: a resume message or an
\* authentication flow is outstanding on the open socket
awaitingAnswer == rsWsOpen /\ (rsResumeSent \/ rsAuthFlow # "none")

\* 'success' stanza: _handleAuthSuccess saves the session, sets info,
\* state = CONNECTED and isReady
RsServerSuccess ==
    /\ awaitingAnswer
    /\ rsInfo' = TRUE
    /\ rsState' = "CONNECTED"
    /\ rsIsReady' = TRUE
    /\ rsResumeSent' = FALSE
    /\ rsAuthFlow' = "none"
    /\ UNCHANGED <<rsPc, rsAuthMethod, rsSession, rsWsOpen, rsFreshCalled,
                   rsResumeFailure, rsResult>>

\* 'failure' stanza: _handleAuthFailure sets state = UNPAIRED and emits
\* AUTH_FAILURE.  When it answers the resume message, the resume has failed.
RsServerFailure ==
    /\ awaitingAnswer
    /\ rsState' = "UNPAIRED"
    /\ rsResumeFailure' = IF rsResumeSent THEN "rejected" ELSE rsResumeFailure
    /\ rsResumeSent' = FALSE
    /\ UNCHANGED <<rsPc, rsAuthMethod, rsSession, rsWsOpen, rsInfo, rsIsReady,
                   rsAuthFlow, rsFreshCalled, rsResult>>

\* the socket closes: the 'close' handler of WebSocketClient clears
\* isConnected (the core listens for 'disconnected', which this client
\* does not emit)
RsSocketClosed ==
    /\ rsWsOpen
    /\ rsWsOpen' = FALSE
    /\ UNCHANGED <<rsPc, rsAuthMethod, rsSession, rsState, rsInfo, rsIsReady,
                   rsResumeSent, rsAuthFlow, rsFreshCalled, rsResumeFailure,
                   rsResult>>

---------------------------------------------------------------------------
(* src/src/session/index.js: class Session, with Helpers.fileExists of     *)
(* src/unnamed/part_000.                                                   *)
(*                                                                         *)
(* files maps the two paths the store touches, sessionPath and             *)
(* sessionPath + '.tmp', to what the file holds.  A file content is a      *)
(* record [kind, key, rec, intact]:                                        *)
(*   "absent"   no such file                                               *)
(*   "blob"     what _encryptSession returned for rec under key; intact    *)
(*              is FALSE once a byte of the ciphertext or of the tag was   *)
(*              changed on disk                                            *)
(*   "json"     JSON.stringify(rec), not encrypted (a file of an earlier   *)
(*              version, or one put there by another program)              *)
(*   "partial"  a prefix of some content: a write that did not finish      *)
(* A session record is [clientId, lastUpdated, who]: whether it has a      *)
(* clientId field, its lastUpdated (0: no such field) and a label that     *)
(* stands for the rest of its fields.  Time is Date.now() in seconds.      *)
(* crypto.createCipher / createDecipher on 'aes-256-gcm' derive key and    *)
(* IV from the password this.encryptionKey; the 16 random bytes            *)
(* _encryptSession puts in front enter neither the cipher nor the tag.     *)
(*                                                                         *)
(* Each call of save, load or clear is an async function: ops[p] is the    *)
(* call that process slot p runs and the await it has reached.             *)

sessionPath == "session.json"
tempPathMisplaced == sessionPath
tempPath == "session.json.tmp"      \* this.sessionPath + '.tmp'
Paths == {sessionPath, "session.json.tmp"}

Day == 24 * 60 * 60
expirationTime == 30 * Day          \* 30 days

NoKey == <<"none", 0>>
EnvKey == <<"env", 0>>     \* process.env.SESSION_ENCRYPTION_KEY
generatedKey(n) == <<"generated", n>>   \* _generateEncryptionKey()

NoRec == [clientId |-> FALSE, lastUpdated |-> 0, who |-> "none"]
Absent == [kind |-> "absent", key |-> NoKey, rec |-> NoRec, intact |-> TRUE]
Partial == [kind |-> "partial", key |-> NoKey, rec |-> NoRec, intact |-> TRUE]
jsonFile(r) == [kind |-> "json", key |-> NoKey, rec |-> r, intact |-> TRUE]

Procs == {"p1", "p2"}
IdleOp == [op |-> "idle", pc |-> "idle", data |-> Absent]
NoLoad == [done |-> FALSE, content |-> Absent, at |-> 0, returned |-> FALSE,
           rec |-> NoRec, fileAfter |-> Absent]
NoSave == [active |-> FALSE, old |-> Absent, new |-> Absent]
\* n: clear() calls since the last save() (2: two or more); threw: one of
\* them threw; after: session file, sessionData and isLoaded as the first
\* of them left them
NoClear == [n |-> 0, threw |-> FALSE, after |-> <<Absent, NoRec, FALSE>>]
NoLogout == [done |-> FALSE, by |-> "none", sent |-> FALSE]

\* _encryptSession(sessionData): base64(iv || ciphertext || authTag)
encryptSession(r, key) ==
    [kind |-> "blob", key |-> key, rec |-> r, intact |-> TRUE]

\* _decryptSession(text): decipher.final() throws unless the tag verifies
\* under this.encryptionKey
decryptOk(c, key) == c.kind = "blob" /\ c.key = key /\ c.intact

\* JSON.parse(text) of the fallback: the text has to be JSON
parseOk(c) == c.kind = "json"

\* load(): sessionData as the try / catch around _decryptSession leaves it
\* (ok = FALSE: JSON.parse threw, load returns null from its outer catch)
decode(c, key) ==
    IF decryptOk(c, key) THEN [ok |-> TRUE, rec |-> c.rec]
    ELSE IF parseOk(c) THEN [ok |-> TRUE, rec |-> c.rec]
    ELSE [ok |-> FALSE, rec |-> NoRec]

\* _validateSession(sessionData)
validateSession(r) == r.clientId

\* _isSessionExpired(sessionData)
isSessionExpiredNever(r, t) == FALSE
isSessionExpired(r, t) ==
    IF r.lastUpdated = 0 THEN FALSE
    ELSE (t - r.lastUpdated) > expirationTime

\* Helpers.fileExists(path)
fileExists(path) == files[path].kind # "absent"

\* the records a caller hands to save()
SaveRecords == {[clientId |-> c, lastUpdated |-> 0, who |-> "caller"] :
                    c \in BOOLEAN}

StartTimeStore == 100 * Day
\* files found at the session path when the program first runs
LegacyFiles ==
    {Absent} \cup
    {jsonFile([clientId |-> c, lastUpdated |-> t, who |-> "legacy"]) :
         c \in BOOLEAN, t \in {0, StartTimeStore - 31 * Day}}

StoreIdle ==
    /\ files = [p \in Paths |-> Absent]
    /\ storeClock = 0
    /\ sessionData = NoRec
    /\ isLoaded = FALSE
    /\ encryptionKey = EnvKey
    /\ ops = [p \in Procs |-> IdleOp]
    /\ lastLoad = NoLoad
    /\ saveCtx = NoSave
    /\ crashes = 0
    /\ clearLog = NoClear
    /\ logoutLog = NoLogout

\* new Session(sessionPath): encryptionKey is SESSION_ENCRYPTION_KEY of the
\* environment or, without it, a key generated for this instance
StoreInit ==
    /\ files \in {[p \in Paths |-> IF p = sessionPath THEN f ELSE Absent] :
                      f \in LegacyFiles}
    /\ storeClock = StartTimeStore
    /\ sessionData = NoRec
    /\ isLoaded = FALSE
    /\ encryptionKey \in {EnvKey, generatedKey(0)}
    /\ ops = [p \in Procs |-> IdleOp]
    /\ lastLoad = NoLoad
    /\ saveCtx = NoSave
    /\ crashes = 0
    /\ clearLog = NoClear
    /\ logoutLog = NoLogout

\* the function returns (or throws): the slot is free again
finish(p) == ops' = [ops EXCEPT ![p] = IdleOp]
goto(p, pc) == ops' = [ops EXCEPT ![p].pc = pc]

\* load() returns null
loadReturnsNull(c, fileAfter) ==
    lastLoad' = [done |-> TRUE, content |-> c, at |-> storeClock,
                 returned |-> FALSE, rec |-> NoRec, fileAfter |-> fileAfter]

\* save(sessionData) up to its first await: the metadata, _encryptSession,
\* Helpers.ensureDir
SaveStart(p, r) ==
    /\ ops[p].op = "idle"
    /\ ops' = [ops EXCEPT ![p] =
                  [op |-> "save", pc |-> "write",
                   data |-> encryptSession(
                                [r EXCEPT !.lastUpdated = storeClock],
                                encryptionKey)]]
    /\ saveCtx' = [active |-> TRUE, old |-> files[sessionPath],
                   new |-> encryptSession(
                               [r EXCEPT !.lastUpdated = storeClock],
                               encryptionKey)]
    /\ UNCHANGED <<files, storeClock, sessionData, isLoaded, encryptionKey,
                   lastLoad, crashes>>
    /\ clearLog' = NoClear
    /\ logoutLog' = NoLogout

\* setField('clientId', value) up to the first await of the save it ends
\* with: the field is set in this.sessionData ({} when there is none), then
\* save(this.sessionData) as in SaveStart
StoreSetField(p, value) ==
    /\ ops[p].op = "idle"
    /\ sessionData' = [sessionData EXCEPT !.clientId = value, !.who = "setField"]
    /\ ops' = [ops EXCEPT ![p] =
                  [op |-> "save", pc |-> "write",
                   data |-> encryptSession(
                                [sessionData' EXCEPT !.lastUpdated = storeClock],
                                encryptionKey)]]
    /\ saveCtx' = [active |-> TRUE, old |-> files[sessionPath],
                   new |-> encryptSession(
                               [sessionData' EXCEPT !.lastUpdated = storeClock],
                               encryptionKey)]
    /\ UNCHANGED <<files, storeClock, isLoaded, encryptionKey, lastLoad,
                   crashes>>
    /\ clearLog' = NoClear
    /\ logoutLog' = NoLogout

\* fs.writeFile(tempPath, ...) has opened and truncated the file and
\* written part of the data
SaveWriteBegin(p) ==
    /\ ops[p].op = "save" /\ ops[p].pc = "write"
    /\ files' = [files EXCEPT ![tempPath] = Partial]
    /\ goto(p, "writing")
    /\ UNCHANGED <<storeClock, sessionData, isLoaded, encryptionKey, lastLoad,
                   saveCtx, crashes,
                   clearLog, logoutLog>>

\* fs.writeFile(tempPath, ...) has written all of the data.  The write goes
\* to the file writeFile opened: when the rename of an overlapping save has
\* moved that file in the meantime, it is the session file.
SaveWriteEnd(p) ==
    /\ ops[p].op = "save" /\ ops[p].pc = "writing"
    /\ files' = IF fileExists(tempPath)
                  THEN [files EXCEPT ![tempPath] = ops[p].data]
                  ELSE [files EXCEPT ![sessionPath] = ops[p].data]
    /\ goto(p, "rename")
    /\ UNCHANGED <<storeClock, sessionData, isLoaded, encryptionKey, lastLoad,
                   saveCtx, crashes,
                   clearLog, logoutLog>>

\* fs.rename(tempPath, this.sessionPath), then this.sessionData and
\* this.isLoaded; ENOENT when tempPath is gone: save throws
SaveRename(p) ==
    /\ ops[p].op = "save" /\ ops[p].pc = "rename"
    /\ IF ~fileExists(tempPath)
       THEN UNCHANGED <<files, sessionData, isLoaded>>
       ELSE /\ files' = IF tempPath = sessionPath THEN files
                        ELSE [files EXCEPT ![sessionPath] = files[tempPath],
                                           ![tempPath] = Absent]
            /\ sessionData' = ops[p].data.rec
            /\ isLoaded' = TRUE
    /\ finish(p)
    /\ UNCHANGED <<storeClock, encryptionKey, lastLoad, saveCtx, crashes>>
    /\ clearLog' = NoClear
    /\ logoutLog' = NoLogout

\* load() up to readFile: Helpers.fileExists(this.sessionPath)
LoadStart(p) ==
    /\ ops[p].op = "idle"
    /\ IF fileExists(sessionPath)
       THEN /\ ops' = [ops EXCEPT ![p] = [op |-> "load", pc |-> "read",
                                          data |-> Absent]]
            /\ lastLoad' = NoLoad
       ELSE /\ loadReturnsNull(Absent, files[sessionPath])
            /\ UNCHANGED ops
    /\ UNCHANGED <<files, storeClock, sessionData, isLoaded, encryptionKey,
                   saveCtx, crashes,
                   clearLog>>
    /\ logoutLog' = NoLogout

\* load() from readFile to its return or to `await this.clear()`:
\* _decryptSession, the JSON.parse fallback, _validateSession,
\* _isSessionExpired
LoadRead(p) ==
    /\ ops[p].op = "load" /\ ops[p].pc = "read"
    /\ IF ~fileExists(sessionPath)
          \/ ~decode(files[sessionPath], encryptionKey).ok
          \/ ~validateSession(decode(files[sessionPath], encryptionKey).rec)
       THEN /\ loadReturnsNull(files[sessionPath], files[sessionPath])
            /\ finish(p)
            /\ UNCHANGED <<sessionData, isLoaded>>
       ELSE IF isSessionExpired(decode(files[sessionPath], encryptionKey).rec,
                                storeClock)
       THEN /\ ops' = [ops EXCEPT ![p] = [op |-> "load", pc |-> "clear",
                                          data |-> files[sessionPath]]]
            /\ UNCHANGED <<lastLoad, sessionData, isLoaded>>
       ELSE /\ sessionData' = decode(files[sessionPath], encryptionKey).rec
            /\ isLoaded' = TRUE
            /\ lastLoad' = [done |-> TRUE, content |-> files[sessionPath],
                            at |-> storeClock, returned |-> TRUE,
                            rec |-> decode(files[sessionPath], encryptionKey).rec,
                            fileAfter |-> files[sessionPath]]
            /\ finish(p)
    /\ UNCHANGED <<files, storeClock, encryptionKey, saveCtx, crashes,
                   clearLog, logoutLog>>

\* clear(): `if (await Helpers.fileExists(this.sessionPath))`
clearUnlinksAlways == TRUE
clearUnlinks == fileExists(sessionPath)

\* clear(): fs.unlink of a file that is not there rejects with ENOENT, and
\* the catch of clear() throws it on
clearThrows == clearUnlinks /\ ~fileExists(sessionPath)

clearFiles == [files EXCEPT ![sessionPath] = Absent]

\* clear(): unlink the file when it exists, forget the session
clear ==
    /\ files' = IF clearThrows THEN files ELSE clearFiles
    /\ sessionData' = IF clearThrows THEN sessionData ELSE NoRec
    /\ isLoaded' = IF clearThrows THEN isLoaded ELSE FALSE
    /\ clearLog' =
         [n |-> IF clearLog.n = 0 THEN 1 ELSE 2,
          threw |-> clearLog.threw \/ clearThrows,
          after |-> IF clearLog.n > 0 THEN clearLog.after
                    ELSE IF clearThrows
                    THEN <<files[sessionPath], sessionData, isLoaded>>
                    ELSE <<Absent, NoRec, FALSE>>]

\* load(): `await this.clear(); return null` of an expired session (when
\* clear() throws, the catch of load() returns null)
LoadClear(p) ==
    /\ ops[p].op = "load" /\ ops[p].pc = "clear"
    /\ clear
    /\ loadReturnsNull(ops[p].data,
                       IF clearThrows THEN files[sessionPath] ELSE Absent)
    /\ saveCtx' = NoSave
    /\ finish(p)
    /\ UNCHANGED <<storeClock, encryptionKey, crashes, logoutLog>>

\* clear() called by the owner of the store
StoreClear(p) ==
    /\ ops[p].op = "idle"
    /\ clear
    /\ saveCtx' = NoSave
    /\ lastLoad' = NoLoad
    /\ logoutLog' = NoLogout
    /\ UNCHANGED <<storeClock, encryptionKey, ops, crashes>>

\* WhatsAppCore.logout() (src/unnamed/part_005): ws.send of the logout
\* message, then session.clear(), then state = UNPAIRED, all inside one
\* try whose catch only logs.  up: the transport is connected and open, so
\* that WebSocketClient.send does not throw.
CoreLogout(up) ==
    /\ IF up
       THEN /\ clear
            /\ saveCtx' = NoSave
            /\ lastLoad' = NoLoad
       ELSE UNCHANGED <<files, sessionData, isLoaded, clearLog, saveCtx,
                        lastLoad>>
    /\ logoutLog' = [done |-> TRUE, by |-> "core", sent |-> up]
    /\ UNCHANGED <<storeClock, encryptionKey, ops, crashes>>

\* logout() of src/final-production-client.js, pointed at the same path:
\* ws.close(), then fs.unlink(sessionPath) with its error ignored.  This
\* client holds no Session object.
ClientLogout ==
    /\ files' = clearFiles
    /\ saveCtx' = NoSave
    /\ lastLoad' = NoLoad
    /\ logoutLog' = [done |-> TRUE, by |-> "client", sent |-> FALSE]
    /\ UNCHANGED <<storeClock, sessionData, isLoaded, encryptionKey, ops,
                   crashes, clearLog>>

\* the process dies and the program is started again: the calls in
\* progress are gone, the disk is as it was, and a new Session is
\* constructed (without SESSION_ENCRYPTION_KEY it generates a new key)
StoreCrash ==
    /\ ops' = [p \in Procs |-> IdleOp]
    /\ sessionData' = NoRec
    /\ isLoaded' = FALSE
    /\ encryptionKey' = IF encryptionKey = EnvKey THEN EnvKey
                        ELSE generatedKey(crashes + 1)
    /\ crashes' = crashes + 1
    /\ lastLoad' = NoLoad
    /\ UNCHANGED <<files, storeClock, saveCtx,
                   clearLog>>
    /\ logoutLog' = NoLogout

\* another program changes a byte of the encrypted session file
StoreTamper ==
    /\ files[sessionPath].kind = "blob"
    /\ files[sessionPath].intact
    /\ files' = [files EXCEPT ![sessionPath].intact = FALSE]
    /\ saveCtx' = NoSave
    /\ UNCHANGED <<storeClock, sessionData, isLoaded, encryptionKey, ops,
                   lastLoad, crashes,
                   clearLog>>
    /\ logoutLog' = NoLogout

\* Date.now() moves on
StoreTick(d) ==
    /\ storeClock' = storeClock + d
    /\ UNCHANGED <<files, sessionData, isLoaded, encryptionKey, ops, lastLoad,
                   saveCtx, crashes,
                   clearLog, logoutLog>>

---------------------------------------------------------------------------
(* src/src/proto/binary-writer.js: writePackedBytes and its helpers, which *)
(* no other method of the writer calls.  The writer appends to this.data   *)
(* byte by byte, so a method that throws leaves the bytes it had pushed:   *)
(* a packed write is the record [out, ok] of the bytes appended and        *)
(* whether the method returned.                                            *)

\* packNibble(value) of a byte (String.fromCharCode first); -1: it throws
packNibble(value) ==
    IF value >= 48 /\ value <= 57 THEN value - 48       \* "0".."9"
    ELSE IF value = 45 THEN 10                          \* "-"
    ELSE IF value = 46 THEN 11                          \* "."
    ELSE IF value = 0 THEN 15                           \* "\x00"
    ELSE -1

\* packHex(value); -1: it throws
packHex(value) ==
    IF value >= 48 /\ value <= 57 THEN value - 48       \* "0".."9"
    ELSE IF value >= 65 /\ value <= 70 THEN value - 55  \* "A".."F"
    ELSE IF value >= 97 /\ value <= 102 THEN value - 87 \* "a".."f"
    ELSE IF value = 0 THEN 15
    ELSE -1

packPart(packType, part) ==
    IF packType = WATags.NIBBLE_8 THEN packNibble(part)
    ELSE IF packType = WATags.HEX_8 THEN packHex(part)
    ELSE -1

\* packBytePair(packType, part1, part2); -1: it throws
packBytePair(packType, part1, part2) ==
    IF packPart(packType, part1) = -1 \/ packPart(packType, part2) = -1
      THEN -1
      ELSE packPart(packType, part1) * 16 + packPart(packType, part2)

\* the two loops of writePackedBytesImpl from pair i on; buffer[k] of an
\* odd-length buffer's last pair is paired with 0
RECURSIVE packLoop(_, _, _)
packLoop(buffer, dataType, i) ==
    IF 2 * i >= Len(buffer) THEN [out |-> <<>>, ok |-> TRUE]
    ELSE IF packBytePair(dataType, buffer[2 * i + 1],
                         IF 2 * i + 2 <= Len(buffer) THEN buffer[2 * i + 2]
                         ELSE 0) = -1
      THEN [out |-> <<>>, ok |-> FALSE]
    ELSE [out |-> pushByte(packBytePair(dataType, buffer[2 * i + 1],
                               IF 2 * i + 2 <= Len(buffer)
                               THEN buffer[2 * i + 2] ELSE 0))
                  \o packLoop(buffer, dataType, i + 1).out,
          ok |-> packLoop(buffer, dataType, i + 1).ok]

writePackedBytesImpl(str, dataType) ==
    IF Len(str) > WATags.PACKED_MAX THEN [out |-> <<>>, ok |-> FALSE]
    ELSE [out |-> pushByte(dataType)
                  \o pushByte((IF Len(str) % 2 > 0 THEN 128 ELSE 0)
                              + (Len(str) + 1) \div 2)
                  \o packLoop(str, dataType, 0).out,
          ok |-> packLoop(str, dataType, 0).ok]

\* the catch of writePackedBytes starts over without truncating this.data
writePackedBytesKeepsNothing(str) ==
    IF writePackedBytesImpl(str, WATags.NIBBLE_8).ok
      THEN writePackedBytesImpl(str, WATags.NIBBLE_8)
      ELSE writePackedBytesImpl(str, WATags.HEX_8)
writePackedBytes(str) ==
    IF writePackedBytesImpl(str, WATags.NIBBLE_8).ok
      THEN writePackedBytesImpl(str, WATags.NIBBLE_8)
      ELSE [out |-> writePackedBytesImpl(str, WATags.NIBBLE_8).out
                    \o writePackedBytesImpl(str, WATags.HEX_8).out,
            ok |-> writePackedBytesImpl(str, WATags.HEX_8).ok]

---------------------------------------------------------------------------
(* The parts of the codec on their own: a caller hands a byte sequence to  *)
(* whatsappReadBinary (job "frame"), a string to writePackedBytes (job     *)
(* "pack") or to writeString (job "chars"), or a Buffer of a given length  *)
(* to writeChildren (job "length"; of the Buffer only the length is kept,  *)
(* primOut is what writeByteLength emits), and reads the output back.      *)

MaxTail == 5
MaxPack == 3

\* a node header: LIST_8, list size 2, the token of "message"
FrameHead == <<WATags.LIST_8, 2, IndexOf(S_message)>>

TailBytes ==
    { 0, 1, IndexOf(S_message), WATags.LIST_8, WATags.BINARY_8,
      WATags.BINARY_32, WATags.NIBBLE_8 }

SeqsUpTo(S, n) == UNION { [1..k -> S] : k \in 0..n }

Frames ==
    { SubSeq(FrameHead, 1, k) : k \in 0..2 }
    \cup { FrameHead \o t : t \in SeqsUpTo(TailBytes, MaxTail) }
    \cup { FrameHead \o <<WATags.BINARY_20>> \o t :
               t \in SeqsUpTo({0, 1, 255}, MaxTail - 1) }

\* "1", "-", ".", "a", "F", "x"
PackChars == { 49, 45, 46, 97, 70, 120 }
PackStrings == SeqsUpTo(PackChars, MaxPack)

\* Buffer lengths around the thresholds of writeByteLength
BufferLengths ==
    { 0, 1, 50, 255, 256, 257, 65535, 65536, Pow2(20) - 1, Pow2(20),
      Pow2(20) + 1, Pow2(24), Pow2(30) }

CharStrings ==
    { S_message, S_to, S_gus, S_swhatsappnet, S_hi, S_empty, S_cus,
      S_1234567890, S_jid, S_atgus, S_hi \o S_at, S_hi \o S_at \o S_hi }

NoRead == Err(0)

PrimIdle ==
    /\ primJob = "none" /\ primBytes = <<>> /\ primLen = 0
    /\ primIsValue = FALSE /\ primOut = <<>> /\ primThrew = FALSE
    /\ primRead = NoRead /\ primPc = "in"

PrimInit ==
    /\ primOut = <<>> /\ primThrew = FALSE /\ primRead = NoRead
    /\ primPc = "in"
    /\ \/ primJob = "frame" /\ primBytes \in Frames /\ primLen = 0
          /\ primIsValue = FALSE
       \/ primJob = "pack" /\ primBytes \in PackStrings /\ primLen = 0
          /\ primIsValue = FALSE
       \/ primJob = "chars" /\ primBytes \in CharStrings /\ primLen = 0
          /\ primIsValue \in BOOLEAN
       \/ primJob = "length" /\ primBytes = <<>> /\ primLen \in BufferLengths
          /\ primIsValue = FALSE

\* whatsappReadBinary(data)
ReadFrame ==
    /\ primJob = "frame" /\ primPc = "in"
    /\ primRead' = whatsappReadBinary(primBytes)
    /\ primPc' = "read"
    /\ UNCHANGED <<primJob, primBytes, primLen, primIsValue, primOut, primThrew>>

\* writer.writePackedBytes(str)
WritePacked ==
    /\ primJob = "pack" /\ primPc = "in"
    /\ primOut' = writePackedBytes(primBytes).out
    /\ primThrew' = ~writePackedBytes(primBytes).ok
    /\ primPc' = "written"
    /\ UNCHANGED <<primJob, primBytes, primLen, primIsValue, primRead>>

\* writer.writeString(token, isValue)
WriteChars ==
    /\ primJob = "chars" /\ primPc = "in"
    /\ primOut' = IF writeString(primBytes, primIsValue) = Throw THEN <<>>
                  ELSE writeString(primBytes, primIsValue)
    /\ primThrew' = (writeString(primBytes, primIsValue) = Throw)
    /\ primPc' = "written"
    /\ UNCHANGED <<primJob, primBytes, primLen, primIsValue, primRead>>

\* writer.writeByteLength(children.length) of writeChildren(Buffer)
WriteLength ==
    /\ primJob = "length" /\ primPc = "in"
    /\ primOut' = IF writeByteLength(primLen) = Throw THEN <<>>
                  ELSE writeByteLength(primLen)
    /\ primThrew' = (writeByteLength(primLen) = Throw)
    /\ primPc' = "written"
    /\ UNCHANGED <<primJob, primBytes, primLen, primIsValue, primRead>>

\* reader.readString(reader.readByte()) on what the writer produced
ReadStringBack ==
    /\ primJob \in {"pack", "chars"} /\ primPc = "written"
    /\ primRead' = readStringAt(primOut, 0)
    /\ primPc' = "read"
    /\ UNCHANGED <<primJob, primBytes, primLen, primIsValue, primOut, primThrew>>

\* the reader's length read of a raw content: the tag, then readByte,
\* readInt20 or readInt32
ReadLengthBack ==
    /\ primJob = "length" /\ primPc = "written"
    /\ primRead' = andThen(readByte(primOut, 0), LAMBDA t :
                           readRawLength(primOut, t.idx, t.val))
    /\ primPc' = "read"
    /\ UNCHANGED <<primJob, primBytes, primLen, primIsValue, primOut, primThrew>>

---------------------------------------------------------------------------
(* src/unnamed/part_006 (RealProtoHandler.decode),                         *)
(* src/src/core/production-core.js and src/unnamed/part_005                *)
(* (_onWebSocketMessage): one frame arriving on the socket.                *)
(*                                                                         *)
(* A frame is described by the tag of its node, its list size and the      *)
(* bytes after the tag; frameBytes gives the bytes on the wire.  The log   *)
(* keeps, for every frame handled, which protocol handler ran and the      *)
(* state and readiness of the core before and after.                       *)

S_success == <<115,117,99,99,101,115,115>>                       \* "success"
S_presence == <<112,114,101,115,101,110,99,101>>                 \* "presence"
S_action == <<97,99,116,105,111,110>>                            \* "action"

MaxFrames == 2

InboundTags == { S_message, S_presence, S_action, S_success }

\* the bytes after the tag of a node of list size 2: a Buffer of one byte,
\* a token, nothing, raw lengths beyond the end of the frame, an undefined
\* tag, a token index beyond the table
InboundTails ==
    { <<WATags.BINARY_8, 1, 104>>,
      <<IndexOf(S_message)>>,
      <<>>,
      <<WATags.BINARY_8, 2, 104>>,
      <<WATags.BINARY_32, 0, 0, 0, 9>>,
      <<WATags.BINARY_32, 248, 0, 0, 0>>,
      <<1>>,
      <<200>> }

InboundFrames ==
    { [tag |-> t, size |-> 1, tail |-> <<>>] : t \in InboundTags }
    \cup { [tag |-> t, size |-> 2, tail |-> b] :
               t \in InboundTags, b \in InboundTails }

\* a dictionary token where there is one, else the characters after BINARY_8
descrBytes(tag) ==
    IF IndexOf(tag) >= 3 THEN <<IndexOf(tag)>>
    ELSE <<WATags.BINARY_8, Len(tag)>> \o tag

frameBytes(f) == <<WATags.LIST_8, f.size>> \o descrBytes(f.tag) \o f.tail

\* RealProtoHandler.decode(data): the tag of the message it returns, Null
\* when it returns null.  whatsappReadMessageArray passes node[2] through,
\* and _nodeToMessage finds an array of three.
protoDecode(data) ==
    LET read == whatsappReadBinary(data)
    IN  IF read.ok THEN read.val.tag ELSE Null

\* ProductionWhatsAppCore._handleProtocolMessage: the case taken
handleProtocolMessage(tag) ==
    IF tag = S_success THEN "_handleAuthSuccess"
    ELSE IF tag = S_message THEN "_handleIncomingMessage"
    ELSE IF tag = S_presence THEN "_handlePresenceUpdate"
    ELSE "none"

\* WhatsAppCore._handleProtoMessage: the case taken
handleProtoMessage(tag) ==
    IF tag = S_message THEN "_handleMessage"
    ELSE IF tag = S_presence THEN "_handlePresence"
    ELSE "none"

InboundIdle ==
    /\ inCore = "none"
    /\ inState = "UNPAIRED"
    /\ inReady = FALSE
    /\ inLog = <<>>

\* frames arrive while the core authenticates or after it became ready
InboundInit ==
    /\ inCore \in {"production", "part_005"}
    /\ \/ inState = "UNPAIRED" /\ inReady = FALSE
       \/ inState = "CONNECTED" /\ inReady = (inCore = "production")
    /\ inLog = <<>>

logged(f, handler, receipt) ==
    [frame |-> f, handler |-> handler, receipt |-> receipt,
     before |-> <<inState, inReady>>, after |-> <<inState', inReady'>>]

\* ProductionWhatsAppCore._onWebSocketMessage(data); saved: session.save
\* and crypto.exportKeys of _handleAuthSuccess return.  When they throw,
\* the catch of _handleProtocolMessage ends the handler before _setState.
\* _handleIncomingMessage ends with _sendDeliveryReceipt.
CoreOnWebSocketMessage(f, saved) ==
    /\ inCore = "production"
    /\ Len(inLog) < MaxFrames
    /\ LET message == protoDecode(frameBytes(f))
           handler == IF message = Null THEN "none"
                      ELSE handleProtocolMessage(message)
       IN  /\ IF handler = "_handleAuthSuccess" /\ saved
                THEN inState' = "CONNECTED" /\ inReady' = TRUE
                ELSE UNCHANGED <<inState, inReady>>
           /\ inLog' = Append(inLog,
                  logged(f, handler, handler = "_handleIncomingMessage"))
    /\ UNCHANGED <<inCore>>

\* WhatsAppCore._onWebSocketMessage(data); authentic: crypto.decrypt
\* returns the frame and does not throw.  _handleMessage sends a delivery
\* receipt only for a message with id and from, which _nodeToMessage never
\* sets.
ClientOnWebSocketMessage(f, authentic) ==
    /\ inCore = "part_005"
    /\ Len(inLog) < MaxFrames
    /\ UNCHANGED <<inCore, inState, inReady>>
    /\ LET message == IF authentic THEN protoDecode(frameBytes(f)) ELSE Null
           handler == IF message = Null THEN "none"
                      ELSE handleProtoMessage(message)
       IN  inLog' = Append(inLog, logged(f, handler, FALSE))

InboundNext ==
    \/ \E f \in InboundFrames, saved \in BOOLEAN : CoreOnWebSocketMessage(f, saved)
    \/ \E f \in InboundFrames, authentic \in BOOLEAN :
           ClientOnWebSocketMessage(f, authentic)

---------------------------------------------------------------------------
(* src/unnamed/part_003: the heartbeat of WebSocketClient.                 *)
(*                                                                         *)
(* Time is in milliseconds and advances in steps of half the pong timeout; *)
(* a timer whose time has come fires before the clock moves on.  A timer   *)
(* is a record with the handle setInterval / setTimeout returned;          *)
(* clearInterval / clearTimeout remove the timer with that handle.  A      *)
(* socket is connecting, open, terminated (ws.terminate() was called, its  *)
(* 'close' event is still to come) or closed.                              *)

heartbeatInterval == 30000
pongTimeoutDelay == 10000

BeatStep == pongTimeoutDelay \div 2
MaxBeatSockets == 2
MaxBeatClock == 45000

BeatSockIds == 1..MaxBeatSockets

BeatIdle ==
    /\ bSocks = [i \in BeatSockIds |-> "none"]
    /\ bWs = 0
    /\ bConnected = FALSE
    /\ bPingInterval = 0
    /\ bPongTimeout = 0
    /\ bTimers = {}
    /\ bHandles = 0
    /\ bClock = 0
    /\ bPings = <<>>
    /\ bTerms = {}
    /\ bReconnects = 0

\* after the constructor: ws, pingInterval and pongTimeout are null
BeatInit == BeatIdle

clearTimer(timers, handle) == { t \in timers : t.id # handle }

\* _createConnection(): new WebSocket(endpoint), assigned to this.ws
beatCreateConnection ==
    /\ \E i \in BeatSockIds :
         /\ bSocks[i] = "none"
         /\ \A j \in BeatSockIds : j < i => bSocks[j] # "none"
         /\ bSocks' = [bSocks EXCEPT ![i] = "connecting"]
         /\ bWs' = i
    /\ UNCHANGED <<bConnected, bPingInterval, bPongTimeout, bTimers, bHandles,
                   bClock, bPings, bTerms>>

\* connect(), called by the core at start and from its own reconnect timer
BeatConnect ==
    /\ ~(bWs # 0 /\ bConnected)
    /\ beatCreateConnection
    /\ UNCHANGED <<bReconnects>>

\* the timer of _scheduleReconnection fires: _attemptReconnection()
BeatAttemptReconnection ==
    /\ bReconnects > 0
    /\ bReconnects' = bReconnects - 1
    /\ beatCreateConnection

\* ws.on('open'): isConnected = true, _startHeartbeat()
BeatOpen(i) ==
    /\ bSocks[i] = "connecting"
    /\ bSocks' = [bSocks EXCEPT ![i] = "open"]
    /\ bConnected' = TRUE
    /\ bHandles' = bHandles + 1
    /\ bPingInterval' = bHandles + 1
    /\ bTimers' = bTimers \cup { [id |-> bHandles + 1, kind |-> "ping",
                                 due |-> bClock + heartbeatInterval] }
    /\ UNCHANGED <<bWs, bPongTimeout, bClock, bPings, bTerms, bReconnects>>

\* the setInterval callback of _startHeartbeat
BeatPing(t) ==
    /\ t \in bTimers /\ t.kind = "ping" /\ t.due <= bClock
    /\ IF bWs # 0 /\ bConnected
         THEN /\ bPings' = Append(bPings, [sock |-> bWs, at |-> bClock,
                                          pongAt |-> -1])
              /\ bHandles' = bHandles + 1
              /\ bPongTimeout' = bHandles + 1
              /\ bTimers' = (bTimers \ {t})
                     \cup { [t EXCEPT !.due = @ + heartbeatInterval],
                            [id |-> bHandles + 1, kind |-> "pong",
                             due |-> bClock + pongTimeoutDelay] }
         ELSE /\ bTimers' = (bTimers \ {t})
                     \cup { [t EXCEPT !.due = @ + heartbeatInterval] }
              /\ UNCHANGED <<bPings, bHandles, bPongTimeout>>
    /\ UNCHANGED <<bSocks, bWs, bConnected, bPingInterval, bClock, bTerms,
                   bReconnects>>

\* ws.on('pong') on the socket that was pinged: the peer answers ping k
BeatPong(k) ==
    /\ k \in 1..Len(bPings)
    /\ bPings[k].pongAt = -1
    /\ bSocks[bPings[k].sock] = "open"
    /\ bPings' = [bPings EXCEPT ![k].pongAt = bClock]
    /\ IF bPongTimeout # 0
         THEN /\ bTimers' = clearTimer(bTimers, bPongTimeout)
              /\ bPongTimeout' = 0
         ELSE UNCHANGED <<bTimers, bPongTimeout>>
    /\ UNCHANGED <<bSocks, bWs, bConnected, bPingInterval, bHandles, bClock,
                   bTerms, bReconnects>>

\* the setTimeout callback of the heartbeat: this.ws.terminate().  this.ws
\* is not null here: only disconnect() assigns null, and this model has no
\* disconnect().
BeatPongTimeout(t) ==
    /\ t \in bTimers /\ t.kind = "pong" /\ t.due <= bClock
    /\ bTimers' = bTimers \ {t}
    /\ bTerms' = bTerms \cup { [sock |-> bWs, at |-> bClock] }
    /\ bSocks' = [bSocks EXCEPT ![bWs] =
                     IF @ \in {"open", "connecting"} THEN "terminated" ELSE @]
    /\ UNCHANGED <<bWs, bConnected, bPingInterval, bPongTimeout, bHandles,
                   bClock, bPings, bReconnects>>

\* ws.on('close'), after terminate() or because the peer closed:
\* isConnected = false, _stopHeartbeat(), emit('close'),
\* _scheduleReconnection()
BeatClose(i) ==
    /\ bSocks[i] \in {"open", "terminated"}
    /\ bSocks' = [bSocks EXCEPT ![i] = "closed"]
    /\ bConnected' = FALSE
    /\ bTimers' = clearTimer(clearTimer(bTimers, bPingInterval), bPongTimeout)
    /\ bPingInterval' = 0
    /\ bPongTimeout' = 0
    /\ bReconnects' = bReconnects + 1
    /\ UNCHANGED <<bWs, bHandles, bClock, bPings, bTerms>>

\* time passes when no timer is due
BeatTick ==
    /\ bClock < MaxBeatClock
    /\ \A t \in bTimers : t.due > bClock
    /\ bClock' = bClock + BeatStep
    /\ UNCHANGED <<bSocks, bWs, bConnected, bPingInterval, bPongTimeout,
                   bTimers, bHandles, bPings, bTerms, bReconnects>>

---------------------------------------------------------------------------
(* The timers of a client and its destroy():                               *)
(* src/src/core/production-core.js (ProductionWhatsAppCore, with the       *)
(* WebSocketClient of src/unnamed/part_003 and QRAuth of                   *)
(* src/src/auth/qr.js) and src/final-production-client.js.                 *)
(*                                                                         *)
(* A timer is named by what set it: heartbeat (the client's own interval), *)
(* drain (the queue tick), ping and pong (the WebSocketClient's            *)
(* heartbeat), reconnect, qr (the QR refresh), scan (the timeout of        *)
(* QRAuth._waitForScan).  An interval stays set when                       *)
(* it fires.  tmSock is the state of the one socket: none, connecting,     *)
(* open, closing (close() or terminate() was called, the 'close' event is  *)
(* still to come), closed.                                                 *)

TimerKinds ==
    {"heartbeat", "drain", "ping", "pong", "reconnect", "qr", "scan"}

TimersIdle ==
    /\ tmClient = "none"
    /\ tmArmed = {}
    /\ tmSock = "none"
    /\ tmDestroyed = FALSE
    /\ tmFired = {}

\* after the constructor: ProductionWhatsAppCore has set its heartbeat and
\* its queue tick, the final client its queue tick
TimersInit ==
    /\ tmClient \in {"core", "final"}
    /\ tmArmed = IF tmClient = "core" THEN {"heartbeat", "drain"} ELSE {"drain"}
    /\ tmSock = "none"
    /\ tmDestroyed = FALSE
    /\ tmFired = {}

\* connect() at start: a socket is created
TmConnect ==
    /\ ~tmDestroyed
    /\ tmSock = "none"
    /\ tmSock' = "connecting"
    /\ UNCHANGED <<tmClient, tmArmed, tmDestroyed, tmFired>>

\* 'open': WebSocketClient._startHeartbeat sets the ping interval; the
\* final client's setupHeartbeat sets its heartbeat interval
TmOpen ==
    /\ tmSock = "connecting"
    /\ tmSock' = "open"
    /\ tmArmed' = tmArmed \cup (IF tmClient = "core" THEN {"ping"}
                                                     ELSE {"heartbeat"})
    /\ UNCHANGED <<tmClient, tmDestroyed, tmFired>>

\* QRAuth.startQRAuth() of the core's authentication: _setQRTimeout clears
\* this.qrTimeout and sets it again, _waitForScan sets its own timeout
TmStartQRAuth ==
    /\ tmClient = "core"
    /\ ~tmDestroyed
    /\ tmArmed' = tmArmed \cup {"qr", "scan"}
    /\ UNCHANGED <<tmClient, tmSock, tmDestroyed, tmFired>>

\* what the callback of timer k does to the timers and the socket
afterFire(k) ==
    CASE k = "ping" ->
           [armed |-> IF tmSock = "open" THEN tmArmed \cup {"pong"} ELSE tmArmed,
            sock |-> tmSock]
      [] k = "pong" ->
           [armed |-> tmArmed \ {"pong"},
            sock |-> IF tmSock \in {"open", "connecting"} THEN "closing"
                     ELSE tmSock]
      [] k = "reconnect" ->
           [armed |-> tmArmed \ {"reconnect"}, sock |-> "connecting"]
      [] k = "qr" -> [armed |-> tmArmed \cup {"scan"}, sock |-> tmSock]
      [] k = "scan" -> [armed |-> tmArmed \ {"scan"}, sock |-> tmSock]
      [] OTHER -> [armed |-> tmArmed, sock |-> tmSock]

\* a timer that is set fires
TmFire(k) ==
    /\ k \in tmArmed
    /\ k = "reconnect" => tmSock \in {"none", "closed"}
    /\ tmArmed' = afterFire(k).armed
    /\ tmSock' = afterFire(k).sock
    /\ tmFired' = IF tmDestroyed THEN tmFired \cup {k} ELSE tmFired
    /\ UNCHANGED <<tmClient, tmDestroyed>>

\* the 'close' event of the socket.  WebSocketClient: _stopHeartbeat and
\* _scheduleReconnection; final client: handleDisconnect clears
\* heartbeatInterval and sets the reconnect timer.  Both count attempts
\* from 0 after an open, so the first close always schedules.
TmClose ==
    /\ tmSock \in {"open", "closing"}
    /\ tmSock' = "closed"
    /\ tmArmed' = (tmArmed \ (IF tmClient = "core" THEN {"ping", "pong"}
                                                   ELSE {"heartbeat"}))
                      \cup {"reconnect"}
    /\ UNCHANGED <<tmClient, tmDestroyed, tmFired>>

\* destroy().  ProductionWhatsAppCore clears heartbeatInterval and
\* rateLimitInterval and awaits websocket.disconnect(), which stops the
\* ping and pong timers and closes the socket; the final client clears
\* heartbeatInterval and closes the socket.
clearedByDestroy ==
    IF tmClient = "core"
      THEN {"heartbeat", "drain"}
             \cup (IF tmSock # "none" THEN {"ping", "pong"} ELSE {})
      ELSE {"heartbeat"}

TmDestroy ==
    /\ ~tmDestroyed
    /\ tmDestroyed' = TRUE
    /\ tmArmed' = tmArmed \ clearedByDestroy
    /\ tmSock' = IF tmSock \in {"open", "connecting"} THEN "closing" ELSE tmSock
    /\ UNCHANGED <<tmClient, tmFired>>

---------------------------------------------------------------------------
(* src/src/production-client.js: the event queue of the client wrapper.    *)
(*                                                                         *)
(* rpEntries are the promises _queueEvent returned ("caller": to a caller  *)
(* of sendMessage, "replay": to _processEventQueue), eventQueue holds the  *)
(* numbers of the entries waiting.  rpCore are the promises                *)
(* core.sendMessage returned; the drain loop of the core settles them.     *)
(* rpLoops are the calls of _processEventQueue that have not returned:     *)
(* the entry each has taken from the queue and the promise its await       *)
(* waits for, <<"core", n>> or <<"entry", n>>.                             *)

MaxEntries == 4
MaxCoreSends == 3
MaxReady == 2

ReplayIdle ==
    /\ rpReady = FALSE
    /\ eventQueue = <<>>
    /\ rpEntries = <<>>
    /\ rpCore = <<>>
    /\ rpLoops = <<>>
    /\ rpReadyCount = 0

ReplayInit == ReplayIdle

without(seq, n) == SubSeq(seq, 1, n - 1) \o SubSeq(seq, n + 1, Len(seq))

\* one pass through the while loop of _processEventQueue up to its await,
\* from the queue, entries and core promises given; loops are the other
\* calls.  sendMessage hands the event to the core when the client is
\* ready and to _queueEvent when it is not.
iterate(loops, queue, entries, core, ready) ==
    IF queue = <<>>
      THEN [loops |-> loops, queue |-> queue, entries |-> entries, core |-> core]
    ELSE IF ready
      THEN [loops |-> Append(loops, [event |-> Head(queue),
                                     awaits |-> <<"core", Len(core) + 1>>]),
            queue |-> Tail(queue),
            entries |-> entries,
            core |-> Append(core, "pending")]
      ELSE [loops |-> Append(loops, [event |-> Head(queue),
                                     awaits |-> <<"entry", Len(entries) + 1>>]),
            queue |-> Append(Tail(queue), Len(entries) + 1),
            entries |-> Append(entries, [by |-> "replay", state |-> "pending"]),
            core |-> core]

RpBound ==
    /\ Len(rpEntries) <= MaxEntries
    /\ Len(rpCore) <= MaxCoreSends
    /\ rpReadyCount <= MaxReady

\* sendMessage(chatId, content) of a caller, with queueMessages set
RpSendMessage ==
    /\ IF rpReady
         THEN /\ rpCore' = Append(rpCore, "pending")
              /\ UNCHANGED <<eventQueue, rpEntries>>
         ELSE /\ rpEntries' = Append(rpEntries,
                                     [by |-> "caller", state |-> "pending"])
              /\ eventQueue' = Append(eventQueue, Len(rpEntries) + 1)
              /\ UNCHANGED <<rpCore>>
    /\ UNCHANGED <<rpReady, rpLoops, rpReadyCount>>

\* the core emits READY: isInitialized = true, _processEventQueue()
RpReady ==
    /\ ~rpReady
    /\ rpReady' = TRUE
    /\ rpReadyCount' = rpReadyCount + 1
    /\ LET r == iterate(rpLoops, eventQueue, rpEntries, rpCore, TRUE)
       IN  /\ rpLoops' = r.loops
           /\ eventQueue' = r.queue
           /\ rpEntries' = r.entries
           /\ rpCore' = r.core

\* the core leaves CONNECTED or clears isReady (_handleAuthFailure,
\* destroy): isClientReady() is false from here
RpUnready ==
    /\ rpReady
    /\ rpReady' = FALSE
    /\ UNCHANGED <<eventQueue, rpEntries, rpCore, rpLoops, rpReadyCount>>

\* the drain loop of the core settles a send
RpCoreSettle(c, ok) ==
    /\ c \in 1 .. Len(rpCore)
    /\ rpCore[c] = "pending"
    /\ rpCore' = [rpCore EXCEPT ![c] = IF ok THEN "resolved" ELSE "rejected"]
    /\ UNCHANGED <<rpReady, eventQueue, rpEntries, rpLoops, rpReadyCount>>

\* the promise p: pending, resolved or rejected
promiseState(p) == IF p[1] = "core" THEN rpCore[p[2]] ELSE rpEntries[p[2]].state

\* _processEventQueue after its await: event.resolve(result) or
\* event.reject(error), then the next pass through the loop
RpContinue(l) ==
    /\ l \in 1 .. Len(rpLoops)
    /\ promiseState(rpLoops[l].awaits) # "pending"
    /\ LET settled == [rpEntries EXCEPT ![rpLoops[l].event].state =
                          promiseState(rpLoops[l].awaits)]
           r == iterate(without(rpLoops, l), eventQueue, settled, rpCore, rpReady)
       IN  /\ rpLoops' = r.loops
           /\ eventQueue' = r.queue
           /\ rpEntries' = r.entries
           /\ rpCore' = r.core
    /\ UNCHANGED <<rpReady, rpReadyCount>>

---------------------------------------------------------------------------
(* src/final-production-client.js ("final") and src/unnamed/part_005       *)
(* ("client"): logout and what the close of the transport does after it.   *)
(*                                                                         *)
(* loWs is the socket: "none", "connecting", "open", "closing" (close()    *)
(* called, the close event still to come) or "closed".  loThen is what     *)
(* follows the open of the socket that is connecting: "auth" (the          *)
(* authentication the open starts) or "reconnected" (the rest of the       *)
(* reconnect timer of handleDisconnect).  loTimers are the timers armed.   *)
(* loLoggedOut holds from a logout() that logged out until a caller calls  *)
(* initialize(); loScheduled records that a close of the socket armed a    *)
(* reconnect timer in that span.                                           *)

LogoutClients == {"final", "client"}

LogoutIdle ==
    /\ loClient = "final"
    /\ loState = "UNPAIRED"
    /\ loIsReady = FALSE
    /\ loWs = "none"
    /\ loThen = "none"
    /\ loTimers = {}
    /\ loAttempts = 0
    /\ loLoggedOut = FALSE
    /\ loScheduled = FALSE

\* after the constructor
LogoutInit ==
    /\ loClient \in LogoutClients
    /\ loState = "UNPAIRED"
    /\ loIsReady = FALSE
    /\ loWs = "none"
    /\ loThen = "none"
    /\ loTimers = {}
    /\ loAttempts = 0
    /\ loLoggedOut = FALSE
    /\ loScheduled = FALSE

\* initialize() of a caller, up to the connect it awaits
LoInitialize ==
    /\ loWs \in {"none", "closed"}
    /\ loWs' = "connecting"
    /\ loThen' = "auth"
    /\ loState' = IF loClient = "client" THEN "UNPAIRED" ELSE loState
    /\ loLoggedOut' = FALSE
    /\ loScheduled' = FALSE
    /\ UNCHANGED <<loClient, loIsReady, loTimers, loAttempts>>

\* the socket opens.  final: the open handler, then what awaited connect():
\* startQRAuth and waitForAuth, or the rest of the reconnect timer.
\* client: _onWebSocketOpen, which resumes the session or starts the
\* authentication flow.
LoOpen ==
    /\ loWs = "connecting"
    /\ loWs' = "open"
    /\ loThen' = IF loClient = "client" THEN "auth" ELSE "none"
    /\ IF loClient = "final"
         THEN /\ loAttempts' = 0
              /\ IF loThen = "reconnected"
                   THEN /\ loIsReady' = TRUE
                        /\ loState' = "CONNECTED"
                        /\ UNCHANGED loTimers
                   ELSE /\ loTimers' = loTimers \cup {"auth"}
                        /\ UNCHANGED <<loIsReady, loState>>
         ELSE /\ loState' = "UNPAIRED"
              /\ UNCHANGED <<loIsReady, loTimers, loAttempts>>
    /\ UNCHANGED <<loClient, loLoggedOut, loScheduled>>

\* final: the timer of waitForAuth
LoAuthTimer ==
    /\ loClient = "final"
    /\ "auth" \in loTimers
    /\ loTimers' = loTimers \ {"auth"}
    /\ loIsReady' = TRUE
    /\ loState' = "CONNECTED"
    /\ UNCHANGED <<loClient, loWs, loThen, loAttempts, loLoggedOut, loScheduled>>

\* client: the authentication started at the open succeeds, _onAuthenticated
LoAuthenticated ==
    /\ loClient = "client"
    /\ loWs = "open"
    /\ loThen = "auth"
    /\ loThen' = "none"
    /\ loState' = "CONNECTED"
    /\ UNCHANGED <<loClient, loIsReady, loWs, loTimers, loAttempts, loLoggedOut,
                   loScheduled>>

\* logout().  final: ws.close(), the session file is unlinked, isReady =
\* false, state = LOGGED_OUT.  client: the logout message is sent, the
\* session cleared and state = UNPAIRED; when the socket is not open send
\* throws and logout only logs the error.
LoLogout ==
    /\ IF loClient = "final"
         THEN /\ loWs' = IF loWs \in {"connecting", "open"} THEN "closing" ELSE loWs
              /\ loIsReady' = FALSE
              /\ loState' = "LOGGED_OUT"
              /\ loLoggedOut' = TRUE
              /\ loScheduled' = FALSE
         ELSE IF loWs = "open"
           THEN /\ loState' = "UNPAIRED"
                /\ loLoggedOut' = TRUE
                /\ loScheduled' = FALSE
                /\ UNCHANGED <<loWs, loIsReady>>
           ELSE UNCHANGED <<loWs, loIsReady, loState, loLoggedOut, loScheduled>>
    /\ UNCHANGED <<loClient, loThen, loTimers, loAttempts>>

\* the close event of the socket: after close(), or because the server or
\* the network closed it (the server closes the socket of a client that
\* logged out).  final: handleDisconnect.  client: _onWebSocketClose.
LoClose ==
    /\ loWs \in {"open", "closing"}
    /\ loWs' = "closed"
    /\ IF loClient = "final"
         THEN /\ loIsReady' = FALSE
              /\ loState' = "DISCONNECTED"
              /\ IF loAttempts < maxReconnectAttempts
                   THEN /\ loAttempts' = loAttempts + 1
                        /\ loTimers' = loTimers \cup {"reconnect"}
                        /\ loScheduled' = loLoggedOut
                   ELSE UNCHANGED <<loAttempts, loTimers, loScheduled>>
         ELSE /\ loState' = "UNPAIRED"
              /\ loTimers' = loTimers \cup {"reconnect"}
              /\ loScheduled' = loLoggedOut
              /\ UNCHANGED <<loIsReady, loAttempts>>
    /\ UNCHANGED <<loClient, loThen, loLoggedOut>>

\* the reconnect timer.  final: connect(), and isReady = true, state =
\* CONNECTED once it resolved.  client: _attemptReconnection.
LoReconnectTimer ==
    /\ "reconnect" \in loTimers
    /\ loTimers' = loTimers \ {"reconnect"}
    /\ loWs' = "connecting"
    /\ loThen' = IF loClient = "final" THEN "reconnected" ELSE loThen
    /\ UNCHANGED <<loClient, loState, loIsReady, loAttempts, loLoggedOut,
                   loScheduled>>

---------------------------------------------------------------------------
(* src/unnamed/part_002: the pre-key store of the KeyManager.              *)
(*                                                                         *)
(* preKeys is the set of key ids of this.preKeys.  preKeysFile is          *)
(* prekeys.json: the key ids it lists and whether it is the JSON text of   *)
(* that list.  storePreKeys and removePreKey call _savePreKeys without     *)
(* awaiting it: pkWrites are the fs.writeFile calls started, each with the *)
(* array it took from this.preKeys and the step it has reached ("open":    *)
(* still to open the file, "write": opened and truncated, "closed").  A    *)
(* key takes the same number of bytes in every array.                      *)

MaxKeyId == 2
MaxPreKeyWrites == 3

KeyIds == 1 .. MaxKeyId

PreKeysIdle ==
    /\ preKeys = {}
    /\ preKeysFile = [keys |-> {}, json |-> TRUE]
    /\ pkWrites = <<>>

\* after initialize(): _loadExistingKeys has read prekeys.json
PreKeysInit ==
    /\ preKeys \in SUBSET KeyIds
    /\ preKeysFile = [keys |-> preKeys, json |-> TRUE]
    /\ pkWrites = <<>>

\* _savePreKeys() up to its await: Array.from(this.preKeys.values())
savePreKeys(keys) == Append(pkWrites, [array |-> keys, pc |-> "open"])

\* storePreKeys(preKeys)
PkStorePreKeys(keys) ==
    /\ preKeys' = preKeys \cup keys
    /\ pkWrites' = savePreKeys(preKeys')
    /\ UNCHANGED preKeysFile

\* removePreKey(keyId)
PkRemovePreKey(keyId) ==
    /\ preKeys' = preKeys \ {keyId}
    /\ pkWrites' = IF keyId \in preKeys THEN savePreKeys(preKeys') ELSE pkWrites
    /\ UNCHANGED preKeysFile

\* fs.writeFile of write w opens prekeys.json with flag 'w': the file is
\* truncated
PkOpen(w) ==
    /\ w \in 1 .. Len(pkWrites)
    /\ pkWrites[w].pc = "open"
    /\ preKeysFile' = [keys |-> {}, json |-> FALSE]
    /\ pkWrites' = [pkWrites EXCEPT ![w].pc = "write"]
    /\ UNCHANGED preKeys

\* the file after the text of array is written at its start: bytes another
\* write put behind the end of the text stay
written(file, array) ==
    IF Cardinality(file.keys) > Cardinality(array)
      THEN [keys |-> array, json |-> FALSE]
      ELSE [keys |-> array, json |-> TRUE]

\* fs.writeFile of write w writes its text from position 0 and closes
PkWrite(w) ==
    /\ w \in 1 .. Len(pkWrites)
    /\ pkWrites[w].pc = "write"
    /\ preKeysFile' = written(preKeysFile, pkWrites[w].array)
    /\ pkWrites' = [pkWrites EXCEPT ![w].pc = "closed"]
    /\ UNCHANGED preKeys

PreKeysBound == Len(pkWrites) <= MaxPreKeyWrites

---------------------------------------------------------------------------
(* Specifications, one per component: the component starts in its initial  *)
(* state and takes its steps, the other components stay idle.              *)

InitCodec == CodecInit /\ RatchetIdle /\ MacIdle /\ NoiseIdle /\ QueueIdle /\ ConnIdle /\ ResumeIdle /\ StoreIdle /\ PrimIdle /\ InboundIdle /\ BeatIdle /\ TimersIdle /\ ReplayIdle /\ LogoutIdle /\ PreKeysIdle

NextCodec ==
    \/ WrapNode /\ UNCHANGED <<ratchetVars, macVars, noiseVars, queueVars, connVars, resumeVars, storeVars, primVars, inboundVars, beatVars, timersVars, replayVars, logoutVars, preKeysVars>>
    \/ WrapNodePair /\ UNCHANGED <<ratchetVars, macVars, noiseVars, queueVars, connVars, resumeVars, storeVars, primVars, inboundVars, beatVars, timersVars, replayVars, logoutVars, preKeysVars>>
    \/ EncodeNode /\ UNCHANGED <<ratchetVars, macVars, noiseVars, queueVars, connVars, resumeVars, storeVars, primVars, inboundVars, beatVars, timersVars, replayVars, logoutVars, preKeysVars>>
    \/ DecodeNode /\ UNCHANGED <<ratchetVars, macVars, noiseVars, queueVars, connVars, resumeVars, storeVars, primVars, inboundVars, beatVars, timersVars, replayVars, logoutVars, preKeysVars>>
    \/ EncodeString /\ UNCHANGED <<ratchetVars, macVars, noiseVars, queueVars, connVars, resumeVars, storeVars, primVars, inboundVars, beatVars, timersVars, replayVars, logoutVars, preKeysVars>>
    \/ DecodeString /\ UNCHANGED <<ratchetVars, macVars, noiseVars, queueVars, connVars, resumeVars, storeVars, primVars, inboundVars, beatVars, timersVars, replayVars, logoutVars, preKeysVars>>

SpecCodec == InitCodec /\ [][NextCodec]_vars

InitRatchet == RatchetInit /\ CodecIdle /\ MacIdle /\ NoiseIdle /\ QueueIdle /\ ConnIdle /\ ResumeIdle /\ StoreIdle /\ PrimIdle /\ InboundIdle /\ BeatIdle /\ TimersIdle /\ ReplayIdle /\ LogoutIdle /\ PreKeysIdle

NextRatchet ==
    \/ RatchetEncrypt /\ UNCHANGED <<codecVars, macVars, noiseVars, queueVars, connVars, resumeVars, storeVars, primVars, inboundVars, beatVars, timersVars, replayVars, logoutVars, preKeysVars>>
    \/ RatchetDecrypt /\ UNCHANGED <<codecVars, macVars, noiseVars, queueVars, connVars, resumeVars, storeVars, primVars, inboundVars, beatVars, timersVars, replayVars, logoutVars, preKeysVars>>
    \/ RatchetForge /\ UNCHANGED <<codecVars, macVars, noiseVars, queueVars, connVars, resumeVars, storeVars, primVars, inboundVars, beatVars, timersVars, replayVars, logoutVars, preKeysVars>>

SpecRatchet == InitRatchet /\ [][NextRatchet]_vars

InitMac == MacInit /\ CodecIdle /\ RatchetIdle /\ NoiseIdle /\ QueueIdle /\ ConnIdle /\ ResumeIdle /\ StoreIdle /\ PrimIdle /\ InboundIdle /\ BeatIdle /\ TimersIdle /\ ReplayIdle /\ LogoutIdle /\ PreKeysIdle

NextMac ==
    \/ MacEncrypt /\ UNCHANGED <<codecVars, ratchetVars, noiseVars, queueVars, connVars, resumeVars, storeVars, primVars, inboundVars, beatVars, timersVars, replayVars, logoutVars, preKeysVars>>
    \/ MacEncryptMedia /\ UNCHANGED <<codecVars, ratchetVars, noiseVars, queueVars, connVars, resumeVars, storeVars, primVars, inboundVars, beatVars, timersVars, replayVars, logoutVars, preKeysVars>>
    \/ MacFlipIvBit /\ UNCHANGED <<codecVars, ratchetVars, noiseVars, queueVars, connVars, resumeVars, storeVars, primVars, inboundVars, beatVars, timersVars, replayVars, logoutVars, preKeysVars>>
    \/ MacFlipCiphertextBit /\ UNCHANGED <<codecVars, ratchetVars, noiseVars, queueVars, connVars, resumeVars, storeVars, primVars, inboundVars, beatVars, timersVars, replayVars, logoutVars, preKeysVars>>
    \/ MacFlipMacBit /\ UNCHANGED <<codecVars, ratchetVars, noiseVars, queueVars, connVars, resumeVars, storeVars, primVars, inboundVars, beatVars, timersVars, replayVars, logoutVars, preKeysVars>>
    \/ MacDecrypt /\ UNCHANGED <<codecVars, ratchetVars, noiseVars, queueVars, connVars, resumeVars, storeVars, primVars, inboundVars, beatVars, timersVars, replayVars, logoutVars, preKeysVars>>
    \/ MacDecryptMedia /\ UNCHANGED <<codecVars, ratchetVars, noiseVars, queueVars, connVars, resumeVars, storeVars, primVars, inboundVars, beatVars, timersVars, replayVars, logoutVars, preKeysVars>>

SpecMac == InitMac /\ [][NextMac]_vars

InitNoise == NoiseInit /\ CodecIdle /\ RatchetIdle /\ MacIdle /\ QueueIdle /\ ConnIdle /\ ResumeIdle /\ StoreIdle /\ PrimIdle /\ InboundIdle /\ BeatIdle /\ TimersIdle /\ ReplayIdle /\ LogoutIdle /\ PreKeysIdle

NextNoise ==
    \/ NoiseInitialize /\ UNCHANGED <<codecVars, ratchetVars, macVars, queueVars, connVars, resumeVars, storeVars, primVars, inboundVars, beatVars, timersVars, replayVars, logoutVars, preKeysVars>>
    \/ NoiseStartHandshake /\ UNCHANGED <<codecVars, ratchetVars, macVars, queueVars, connVars, resumeVars, storeVars, primVars, inboundVars, beatVars, timersVars, replayVars, logoutVars, preKeysVars>>
    \/ NoiseProcessMessage1 /\ UNCHANGED <<codecVars, ratchetVars, macVars, queueVars, connVars, resumeVars, storeVars, primVars, inboundVars, beatVars, timersVars, replayVars, logoutVars, preKeysVars>>
    \/ NoiseProcessMessage2 /\ UNCHANGED <<codecVars, ratchetVars, macVars, queueVars, connVars, resumeVars, storeVars, primVars, inboundVars, beatVars, timersVars, replayVars, logoutVars, preKeysVars>>
    \/ NoiseGetTransportKeys /\ UNCHANGED <<codecVars, ratchetVars, macVars, queueVars, connVars, resumeVars, storeVars, primVars, inboundVars, beatVars, timersVars, replayVars, logoutVars, preKeysVars>>
    \/ NoiseReset /\ UNCHANGED <<codecVars, ratchetVars, macVars, queueVars, connVars, resumeVars, storeVars, primVars, inboundVars, beatVars, timersVars, replayVars, logoutVars, preKeysVars>>
    \/ NoiseMixKey /\ UNCHANGED <<codecVars, ratchetVars, macVars, queueVars, connVars, resumeVars, storeVars, primVars, inboundVars, beatVars, timersVars, replayVars, logoutVars, preKeysVars>>
    \/ NoiseEncryptAndHash /\ UNCHANGED <<codecVars, ratchetVars, macVars, queueVars, connVars, resumeVars, storeVars, primVars, inboundVars, beatVars, timersVars, replayVars, logoutVars, preKeysVars>>
    \/ NoiseDecryptAndHash /\ UNCHANGED <<codecVars, ratchetVars, macVars, queueVars, connVars, resumeVars, storeVars, primVars, inboundVars, beatVars, timersVars, replayVars, logoutVars, preKeysVars>>

SpecNoise == InitNoise /\ [][NextNoise]_vars

InitQueue == QueueInit /\ CodecIdle /\ RatchetIdle /\ MacIdle /\ NoiseIdle /\ ConnIdle /\ ResumeIdle /\ StoreIdle /\ PrimIdle /\ InboundIdle /\ BeatIdle /\ TimersIdle /\ ReplayIdle /\ LogoutIdle /\ PreKeysIdle

NextQueue ==
    \/ AdvanceClock /\ UNCHANGED <<codecVars, ratchetVars, macVars, noiseVars, connVars, resumeVars, storeVars, primVars, inboundVars, beatVars, timersVars, replayVars, logoutVars, preKeysVars>>
    \/ WebSocketConnected /\ UNCHANGED <<codecVars, ratchetVars, macVars, noiseVars, connVars, resumeVars, storeVars, primVars, inboundVars, beatVars, timersVars, replayVars, logoutVars, preKeysVars>>
    \/ HandleAuthSuccess /\ UNCHANGED <<codecVars, ratchetVars, macVars, noiseVars, connVars, resumeVars, storeVars, primVars, inboundVars, beatVars, timersVars, replayVars, logoutVars, preKeysVars>>
    \/ OnWebSocketDisconnected /\ UNCHANGED <<codecVars, ratchetVars, macVars, noiseVars, connVars, resumeVars, storeVars, primVars, inboundVars, beatVars, timersVars, replayVars, logoutVars, preKeysVars>>
    \/ PerformKeyExchange /\ UNCHANGED <<codecVars, ratchetVars, macVars, noiseVars, connVars, resumeVars, storeVars, primVars, inboundVars, beatVars, timersVars, replayVars, logoutVars, preKeysVars>>
    \/ SendMessage /\ UNCHANGED <<codecVars, ratchetVars, macVars, noiseVars, connVars, resumeVars, storeVars, primVars, inboundVars, beatVars, timersVars, replayVars, logoutVars, preKeysVars>>
    \/ RateLimitTick /\ UNCHANGED <<codecVars, ratchetVars, macVars, noiseVars, connVars, resumeVars, storeVars, primVars, inboundVars, beatVars, timersVars, replayVars, logoutVars, preKeysVars>>
    \/ ContinueSend /\ UNCHANGED <<codecVars, ratchetVars, macVars, noiseVars, connVars, resumeVars, storeVars, primVars, inboundVars, beatVars, timersVars, replayVars, logoutVars, preKeysVars>>
    \/ SettleItem /\ UNCHANGED <<codecVars, ratchetVars, macVars, noiseVars, connVars, resumeVars, storeVars, primVars, inboundVars, beatVars, timersVars, replayVars, logoutVars, preKeysVars>>
    \/ Destroy /\ UNCHANGED <<codecVars, ratchetVars, macVars, noiseVars, connVars, resumeVars, storeVars, primVars, inboundVars, beatVars, timersVars, replayVars, logoutVars, preKeysVars>>

SpecQueue == InitQueue /\ [][NextQueue]_vars

\* The connection lifecycle with every event of the network and every
\* public call; at most MaxTimers timers of the client and MaxCoreTimers
\* timers of each kind of the core are pending.
MaxTimers == 2
MaxCoreTimers == 2

ConnBound ==
    /\ reconnectTimers <= MaxTimers
    /\ closeTimers <= MaxCoreTimers
    /\ retryTimers <= MaxCoreTimers

InitConn == ConnInit /\ CodecIdle /\ RatchetIdle /\ MacIdle /\ NoiseIdle /\ QueueIdle /\ ResumeIdle /\ StoreIdle /\ PrimIdle /\ InboundIdle /\ BeatIdle /\ TimersIdle /\ ReplayIdle /\ LogoutIdle /\ PreKeysIdle

NextConn ==
    \/ CoreInitialize /\ ConnBound' /\ UNCHANGED <<codecVars, ratchetVars, macVars, noiseVars, queueVars, resumeVars, storeVars, primVars, inboundVars, beatVars, timersVars, replayVars, logoutVars, preKeysVars>>
    \/ (\E i \in SockIds : SocketOpen(i)) /\ ConnBound' /\ UNCHANGED <<codecVars, ratchetVars, macVars, noiseVars, queueVars, resumeVars, storeVars, primVars, inboundVars, beatVars, timersVars, replayVars, logoutVars, preKeysVars>>
    \/ (\E i \in SockIds : SocketError(i)) /\ ConnBound' /\ UNCHANGED <<codecVars, ratchetVars, macVars, noiseVars, queueVars, resumeVars, storeVars, primVars, inboundVars, beatVars, timersVars, replayVars, logoutVars, preKeysVars>>
    \/ (\E i \in SockIds : SocketClose(i)) /\ ConnBound' /\ UNCHANGED <<codecVars, ratchetVars, macVars, noiseVars, queueVars, resumeVars, storeVars, primVars, inboundVars, beatVars, timersVars, replayVars, logoutVars, preKeysVars>>
    \/ ReconnectTimerFires /\ ConnBound' /\ UNCHANGED <<codecVars, ratchetVars, macVars, noiseVars, queueVars, resumeVars, storeVars, primVars, inboundVars, beatVars, timersVars, replayVars, logoutVars, preKeysVars>>
    \/ CoreCloseTimerFires /\ ConnBound' /\ UNCHANGED <<codecVars, ratchetVars, macVars, noiseVars, queueVars, resumeVars, storeVars, primVars, inboundVars, beatVars, timersVars, replayVars, logoutVars, preKeysVars>>
    \/ CoreRetryTimerFires /\ ConnBound' /\ UNCHANGED <<codecVars, ratchetVars, macVars, noiseVars, queueVars, resumeVars, storeVars, primVars, inboundVars, beatVars, timersVars, replayVars, logoutVars, preKeysVars>>
    \/ CoreDestroy /\ ConnBound' /\ UNCHANGED <<codecVars, ratchetVars, macVars, noiseVars, queueVars, resumeVars, storeVars, primVars, inboundVars, beatVars, timersVars, replayVars, logoutVars, preKeysVars>>
    \/ CoreAuthenticated /\ ConnBound' /\ UNCHANGED <<codecVars, ratchetVars, macVars, noiseVars, queueVars, resumeVars, storeVars, primVars, inboundVars, beatVars, timersVars, replayVars, logoutVars, preKeysVars>>
    \/ CoreStreamError /\ ConnBound' /\ UNCHANGED <<codecVars, ratchetVars, macVars, noiseVars, queueVars, resumeVars, storeVars, primVars, inboundVars, beatVars, timersVars, replayVars, logoutVars, preKeysVars>>

SpecConn == InitConn /\ [][NextConn]_vars

\* The connection lifecycle while the servers are unreachable: no
\* handshake completes, so reconnectAttempts is never reset and the client
\* runs through all of its attempts.
MaxDownTimers == 5

DownBound ==
    /\ reconnectTimers <= MaxDownTimers
    /\ closeTimers <= MaxDownTimers
    /\ retryTimers <= MaxDownTimers

InitDown == ConnInit /\ CodecIdle /\ RatchetIdle /\ MacIdle /\ NoiseIdle /\ QueueIdle /\ ResumeIdle /\ StoreIdle /\ PrimIdle /\ InboundIdle /\ BeatIdle /\ TimersIdle /\ ReplayIdle /\ LogoutIdle /\ PreKeysIdle

NextDown ==
    \/ CoreInitialize /\ DownBound' /\ UNCHANGED <<codecVars, ratchetVars, macVars, noiseVars, queueVars, resumeVars, storeVars, primVars, inboundVars, beatVars, timersVars, replayVars, logoutVars, preKeysVars>>
    \/ (\E i \in SockIds : SocketError(i)) /\ DownBound' /\ UNCHANGED <<codecVars, ratchetVars, macVars, noiseVars, queueVars, resumeVars, storeVars, primVars, inboundVars, beatVars, timersVars, replayVars, logoutVars, preKeysVars>>
    \/ (\E i \in SockIds : SocketClose(i)) /\ DownBound' /\ UNCHANGED <<codecVars, ratchetVars, macVars, noiseVars, queueVars, resumeVars, storeVars, primVars, inboundVars, beatVars, timersVars, replayVars, logoutVars, preKeysVars>>
    \/ ReconnectTimerFires /\ DownBound' /\ UNCHANGED <<codecVars, ratchetVars, macVars, noiseVars, queueVars, resumeVars, storeVars, primVars, inboundVars, beatVars, timersVars, replayVars, logoutVars, preKeysVars>>
    \/ CoreCloseTimerFires /\ DownBound' /\ UNCHANGED <<codecVars, ratchetVars, macVars, noiseVars, queueVars, resumeVars, storeVars, primVars, inboundVars, beatVars, timersVars, replayVars, logoutVars, preKeysVars>>
    \/ CoreRetryTimerFires /\ DownBound' /\ UNCHANGED <<codecVars, ratchetVars, macVars, noiseVars, queueVars, resumeVars, storeVars, primVars, inboundVars, beatVars, timersVars, replayVars, logoutVars, preKeysVars>>

SpecDown == InitDown /\ [][NextDown]_vars

InitResume == ResumeInit /\ CodecIdle /\ RatchetIdle /\ MacIdle /\ NoiseIdle /\ QueueIdle /\ ConnIdle /\ StoreIdle /\ PrimIdle /\ InboundIdle /\ BeatIdle /\ TimersIdle /\ ReplayIdle /\ LogoutIdle /\ PreKeysIdle

NextResume ==
    \/ RsInitialize /\ UNCHANGED <<codecVars, ratchetVars, macVars, noiseVars, queueVars, connVars, storeVars, primVars, inboundVars, beatVars, timersVars, replayVars, logoutVars, preKeysVars>>
    \/ RsRestoreKeys /\ UNCHANGED <<codecVars, ratchetVars, macVars, noiseVars, queueVars, connVars, storeVars, primVars, inboundVars, beatVars, timersVars, replayVars, logoutVars, preKeysVars>>
    \/ RsResumeConnect /\ UNCHANGED <<codecVars, ratchetVars, macVars, noiseVars, queueVars, connVars, storeVars, primVars, inboundVars, beatVars, timersVars, replayVars, logoutVars, preKeysVars>>
    \/ RsResumeSend /\ UNCHANGED <<codecVars, ratchetVars, macVars, noiseVars, queueVars, connVars, storeVars, primVars, inboundVars, beatVars, timersVars, replayVars, logoutVars, preKeysVars>>
    \/ RsFreshConnect /\ UNCHANGED <<codecVars, ratchetVars, macVars, noiseVars, queueVars, connVars, storeVars, primVars, inboundVars, beatVars, timersVars, replayVars, logoutVars, preKeysVars>>
    \/ RsGenerateKeys /\ UNCHANGED <<codecVars, ratchetVars, macVars, noiseVars, queueVars, connVars, storeVars, primVars, inboundVars, beatVars, timersVars, replayVars, logoutVars, preKeysVars>>
    \/ RsStartAuth /\ UNCHANGED <<codecVars, ratchetVars, macVars, noiseVars, queueVars, connVars, storeVars, primVars, inboundVars, beatVars, timersVars, replayVars, logoutVars, preKeysVars>>
    \/ RsServerSuccess /\ UNCHANGED <<codecVars, ratchetVars, macVars, noiseVars, queueVars, connVars, storeVars, primVars, inboundVars, beatVars, timersVars, replayVars, logoutVars, preKeysVars>>
    \/ RsServerFailure /\ UNCHANGED <<codecVars, ratchetVars, macVars, noiseVars, queueVars, connVars, storeVars, primVars, inboundVars, beatVars, timersVars, replayVars, logoutVars, preKeysVars>>
    \/ RsSocketClosed /\ UNCHANGED <<codecVars, ratchetVars, macVars, noiseVars, queueVars, connVars, storeVars, primVars, inboundVars, beatVars, timersVars, replayVars, logoutVars, preKeysVars>>

SpecResume == InitResume /\ [][NextResume]_vars

\* The session store used by one caller at a time: a call starts when no
\* other call is in progress, the process may die at any await, and time
\* passes in steps of fifteen days (two steps: exactly the expiration time).
MaxTicks == 3
MaxCrashes == 1

noCallInProgress == \A p \in Procs : ops[p].op = "idle"

StoreBound ==
    /\ storeClock <= StartTimeStore + MaxTicks * 15 * Day
    /\ crashes <= MaxCrashes

InitStore == StoreInit /\ CodecIdle /\ RatchetIdle /\ MacIdle /\ NoiseIdle /\ QueueIdle /\ ConnIdle /\ ResumeIdle /\ PrimIdle /\ InboundIdle /\ BeatIdle /\ TimersIdle /\ ReplayIdle /\ LogoutIdle /\ PreKeysIdle

NextStore ==
    \/ (\E r \in SaveRecords : SaveStart("p1", r)) /\ noCallInProgress /\ UNCHANGED <<codecVars, ratchetVars, macVars, noiseVars, queueVars, connVars, resumeVars, primVars, inboundVars, beatVars, timersVars, replayVars, logoutVars, preKeysVars>>
    \/ (\E p \in Procs : SaveWriteBegin(p)) /\ UNCHANGED <<codecVars, ratchetVars, macVars, noiseVars, queueVars, connVars, resumeVars, primVars, inboundVars, beatVars, timersVars, replayVars, logoutVars, preKeysVars>>
    \/ (\E p \in Procs : SaveWriteEnd(p)) /\ UNCHANGED <<codecVars, ratchetVars, macVars, noiseVars, queueVars, connVars, resumeVars, primVars, inboundVars, beatVars, timersVars, replayVars, logoutVars, preKeysVars>>
    \/ (\E p \in Procs : SaveRename(p)) /\ UNCHANGED <<codecVars, ratchetVars, macVars, noiseVars, queueVars, connVars, resumeVars, primVars, inboundVars, beatVars, timersVars, replayVars, logoutVars, preKeysVars>>
    \/ LoadStart("p1") /\ noCallInProgress /\ UNCHANGED <<codecVars, ratchetVars, macVars, noiseVars, queueVars, connVars, resumeVars, primVars, inboundVars, beatVars, timersVars, replayVars, logoutVars, preKeysVars>>
    \/ (\E p \in Procs : LoadRead(p)) /\ UNCHANGED <<codecVars, ratchetVars, macVars, noiseVars, queueVars, connVars, resumeVars, primVars, inboundVars, beatVars, timersVars, replayVars, logoutVars, preKeysVars>>
    \/ (\E p \in Procs : LoadClear(p)) /\ UNCHANGED <<codecVars, ratchetVars, macVars, noiseVars, queueVars, connVars, resumeVars, primVars, inboundVars, beatVars, timersVars, replayVars, logoutVars, preKeysVars>>
    \/ StoreClear("p1") /\ noCallInProgress /\ UNCHANGED <<codecVars, ratchetVars, macVars, noiseVars, queueVars, connVars, resumeVars, primVars, inboundVars, beatVars, timersVars, replayVars, logoutVars, preKeysVars>>
    \/ (\E up \in BOOLEAN : CoreLogout(up)) /\ noCallInProgress /\ UNCHANGED <<codecVars, ratchetVars, macVars, noiseVars, queueVars, connVars, resumeVars, primVars, inboundVars, beatVars, timersVars, replayVars, logoutVars, preKeysVars>>
    \/ ClientLogout /\ noCallInProgress /\ UNCHANGED <<codecVars, ratchetVars, macVars, noiseVars, queueVars, connVars, resumeVars, primVars, inboundVars, beatVars, timersVars, replayVars, logoutVars, preKeysVars>>
    \/ StoreCrash /\ StoreBound' /\ UNCHANGED <<codecVars, ratchetVars, macVars, noiseVars, queueVars, connVars, resumeVars, primVars, inboundVars, beatVars, timersVars, replayVars, logoutVars, preKeysVars>>
    \/ StoreTamper /\ noCallInProgress /\ UNCHANGED <<codecVars, ratchetVars, macVars, noiseVars, queueVars, connVars, resumeVars, primVars, inboundVars, beatVars, timersVars, replayVars, logoutVars, preKeysVars>>
    \/ StoreTick(15 * Day) /\ StoreBound' /\ UNCHANGED <<codecVars, ratchetVars, macVars, noiseVars, queueVars, connVars, resumeVars, primVars, inboundVars, beatVars, timersVars, replayVars, logoutVars, preKeysVars>>

SpecStore == InitStore /\ [][NextStore]_vars

\* The session store with two calls that overlap: a save() and, while it is
\* in progress, a setField().
firstSaveInProgress ==
    ops["p1"].op = "save" /\ saveCtx.new = ops["p1"].data

NextStoreOverlap ==
    \/ (\E r \in SaveRecords : SaveStart("p1", r)) /\ ~saveCtx.active /\ UNCHANGED <<codecVars, ratchetVars, macVars, noiseVars, queueVars, connVars, resumeVars, primVars, inboundVars, beatVars, timersVars, replayVars, logoutVars, preKeysVars>>
    \/ (\E v \in BOOLEAN : StoreSetField("p2", v)) /\ firstSaveInProgress /\ UNCHANGED <<codecVars, ratchetVars, macVars, noiseVars, queueVars, connVars, resumeVars, primVars, inboundVars, beatVars, timersVars, replayVars, logoutVars, preKeysVars>>
    \/ (\E p \in Procs : SaveWriteBegin(p)) /\ UNCHANGED <<codecVars, ratchetVars, macVars, noiseVars, queueVars, connVars, resumeVars, primVars, inboundVars, beatVars, timersVars, replayVars, logoutVars, preKeysVars>>
    \/ (\E p \in Procs : SaveWriteEnd(p)) /\ UNCHANGED <<codecVars, ratchetVars, macVars, noiseVars, queueVars, connVars, resumeVars, primVars, inboundVars, beatVars, timersVars, replayVars, logoutVars, preKeysVars>>
    \/ (\E p \in Procs : SaveRename(p)) /\ UNCHANGED <<codecVars, ratchetVars, macVars, noiseVars, queueVars, connVars, resumeVars, primVars, inboundVars, beatVars, timersVars, replayVars, logoutVars, preKeysVars>>

SpecStoreOverlap == InitStore /\ [][NextStoreOverlap]_vars

InitPrim == PrimInit /\ CodecIdle /\ RatchetIdle /\ MacIdle /\ NoiseIdle /\ QueueIdle /\ ConnIdle /\ ResumeIdle /\ StoreIdle /\ InboundIdle /\ BeatIdle /\ TimersIdle /\ ReplayIdle /\ LogoutIdle /\ PreKeysIdle

NextPrim ==
    \/ ReadFrame /\ UNCHANGED <<codecVars, ratchetVars, macVars, noiseVars, queueVars, connVars, resumeVars, storeVars, inboundVars, beatVars, timersVars, replayVars, logoutVars, preKeysVars>>
    \/ WritePacked /\ UNCHANGED <<codecVars, ratchetVars, macVars, noiseVars, queueVars, connVars, resumeVars, storeVars, inboundVars, beatVars, timersVars, replayVars, logoutVars, preKeysVars>>
    \/ WriteChars /\ UNCHANGED <<codecVars, ratchetVars, macVars, noiseVars, queueVars, connVars, resumeVars, storeVars, inboundVars, beatVars, timersVars, replayVars, logoutVars, preKeysVars>>
    \/ WriteLength /\ UNCHANGED <<codecVars, ratchetVars, macVars, noiseVars, queueVars, connVars, resumeVars, storeVars, inboundVars, beatVars, timersVars, replayVars, logoutVars, preKeysVars>>
    \/ ReadStringBack /\ UNCHANGED <<codecVars, ratchetVars, macVars, noiseVars, queueVars, connVars, resumeVars, storeVars, inboundVars, beatVars, timersVars, replayVars, logoutVars, preKeysVars>>
    \/ ReadLengthBack /\ UNCHANGED <<codecVars, ratchetVars, macVars, noiseVars, queueVars, connVars, resumeVars, storeVars, inboundVars, beatVars, timersVars, replayVars, logoutVars, preKeysVars>>

SpecPrim == InitPrim /\ [][NextPrim]_vars

InitInbound == InboundInit /\ CodecIdle /\ RatchetIdle /\ MacIdle /\ NoiseIdle /\ QueueIdle /\ ConnIdle /\ ResumeIdle /\ StoreIdle /\ PrimIdle /\ BeatIdle /\ TimersIdle /\ ReplayIdle /\ LogoutIdle /\ PreKeysIdle

NextInbound ==
    \/ (\E f \in InboundFrames, saved \in BOOLEAN : CoreOnWebSocketMessage(f, saved)) /\ UNCHANGED <<codecVars, ratchetVars, macVars, noiseVars, queueVars, connVars, resumeVars, storeVars, primVars, beatVars, timersVars, replayVars, logoutVars, preKeysVars>>
    \/ (\E f \in InboundFrames, authentic \in BOOLEAN : ClientOnWebSocketMessage(f, authentic)) /\ UNCHANGED <<codecVars, ratchetVars, macVars, noiseVars, queueVars, connVars, resumeVars, storeVars, primVars, beatVars, timersVars, replayVars, logoutVars, preKeysVars>>

SpecInbound == InitInbound /\ [][NextInbound]_vars

InitBeat == BeatInit /\ CodecIdle /\ RatchetIdle /\ MacIdle /\ NoiseIdle /\ QueueIdle /\ ConnIdle /\ ResumeIdle /\ StoreIdle /\ PrimIdle /\ InboundIdle /\ TimersIdle /\ ReplayIdle /\ LogoutIdle /\ PreKeysIdle

NextBeat ==
    \/ BeatConnect /\ UNCHANGED <<codecVars, ratchetVars, macVars, noiseVars, queueVars, connVars, resumeVars, storeVars, primVars, inboundVars, timersVars, replayVars, logoutVars, preKeysVars>>
    \/ BeatAttemptReconnection /\ UNCHANGED <<codecVars, ratchetVars, macVars, noiseVars, queueVars, connVars, resumeVars, storeVars, primVars, inboundVars, timersVars, replayVars, logoutVars, preKeysVars>>
    \/ (\E i \in BeatSockIds : BeatOpen(i)) /\ UNCHANGED <<codecVars, ratchetVars, macVars, noiseVars, queueVars, connVars, resumeVars, storeVars, primVars, inboundVars, timersVars, replayVars, logoutVars, preKeysVars>>
    \/ (\E t \in bTimers : BeatPing(t)) /\ UNCHANGED <<codecVars, ratchetVars, macVars, noiseVars, queueVars, connVars, resumeVars, storeVars, primVars, inboundVars, timersVars, replayVars, logoutVars, preKeysVars>>
    \/ (\E k \in 1..Len(bPings) : BeatPong(k)) /\ UNCHANGED <<codecVars, ratchetVars, macVars, noiseVars, queueVars, connVars, resumeVars, storeVars, primVars, inboundVars, timersVars, replayVars, logoutVars, preKeysVars>>
    \/ (\E t \in bTimers : BeatPongTimeout(t)) /\ UNCHANGED <<codecVars, ratchetVars, macVars, noiseVars, queueVars, connVars, resumeVars, storeVars, primVars, inboundVars, timersVars, replayVars, logoutVars, preKeysVars>>
    \/ (\E i \in BeatSockIds : BeatClose(i)) /\ UNCHANGED <<codecVars, ratchetVars, macVars, noiseVars, queueVars, connVars, resumeVars, storeVars, primVars, inboundVars, timersVars, replayVars, logoutVars, preKeysVars>>
    \/ BeatTick /\ UNCHANGED <<codecVars, ratchetVars, macVars, noiseVars, queueVars, connVars, resumeVars, storeVars, primVars, inboundVars, timersVars, replayVars, logoutVars, preKeysVars>>

SpecBeat == InitBeat /\ [][NextBeat]_vars

InitTimers == TimersInit /\ CodecIdle /\ RatchetIdle /\ MacIdle /\ NoiseIdle /\ QueueIdle /\ ConnIdle /\ ResumeIdle /\ StoreIdle /\ PrimIdle /\ InboundIdle /\ BeatIdle /\ ReplayIdle /\ LogoutIdle /\ PreKeysIdle

NextTimers ==
    \/ TmConnect /\ UNCHANGED <<codecVars, ratchetVars, macVars, noiseVars, queueVars, connVars, resumeVars, storeVars, primVars, inboundVars, beatVars, replayVars, logoutVars, preKeysVars>>
    \/ TmOpen /\ UNCHANGED <<codecVars, ratchetVars, macVars, noiseVars, queueVars, connVars, resumeVars, storeVars, primVars, inboundVars, beatVars, replayVars, logoutVars, preKeysVars>>
    \/ TmStartQRAuth /\ UNCHANGED <<codecVars, ratchetVars, macVars, noiseVars, queueVars, connVars, resumeVars, storeVars, primVars, inboundVars, beatVars, replayVars, logoutVars, preKeysVars>>
    \/ (\E k \in TimerKinds : TmFire(k)) /\ UNCHANGED <<codecVars, ratchetVars, macVars, noiseVars, queueVars, connVars, resumeVars, storeVars, primVars, inboundVars, beatVars, replayVars, logoutVars, preKeysVars>>
    \/ TmClose /\ UNCHANGED <<codecVars, ratchetVars, macVars, noiseVars, queueVars, connVars, resumeVars, storeVars, primVars, inboundVars, beatVars, replayVars, logoutVars, preKeysVars>>
    \/ TmDestroy /\ UNCHANGED <<codecVars, ratchetVars, macVars, noiseVars, queueVars, connVars, resumeVars, storeVars, primVars, inboundVars, beatVars, replayVars, logoutVars, preKeysVars>>

SpecTimers == InitTimers /\ [][NextTimers]_vars

InitReplay == ReplayInit /\ CodecIdle /\ RatchetIdle /\ MacIdle /\ NoiseIdle /\ QueueIdle /\ ConnIdle /\ ResumeIdle /\ StoreIdle /\ PrimIdle /\ InboundIdle /\ BeatIdle /\ TimersIdle /\ LogoutIdle /\ PreKeysIdle

NextReplay ==
    \/ RpSendMessage /\ RpBound' /\ UNCHANGED <<codecVars, ratchetVars, macVars, noiseVars, queueVars, connVars, resumeVars, storeVars, primVars, inboundVars, beatVars, timersVars, logoutVars, preKeysVars>>
    \/ RpReady /\ RpBound' /\ UNCHANGED <<codecVars, ratchetVars, macVars, noiseVars, queueVars, connVars, resumeVars, storeVars, primVars, inboundVars, beatVars, timersVars, logoutVars, preKeysVars>>
    \/ RpUnready /\ RpBound' /\ UNCHANGED <<codecVars, ratchetVars, macVars, noiseVars, queueVars, connVars, resumeVars, storeVars, primVars, inboundVars, beatVars, timersVars, logoutVars, preKeysVars>>
    \/ (\E c \in 1 .. Len(rpCore), ok \in BOOLEAN : RpCoreSettle(c, ok)) /\ RpBound' /\ UNCHANGED <<codecVars, ratchetVars, macVars, noiseVars, queueVars, connVars, resumeVars, storeVars, primVars, inboundVars, beatVars, timersVars, logoutVars, preKeysVars>>
    \/ (\E l \in 1 .. Len(rpLoops) : RpContinue(l)) /\ RpBound' /\ UNCHANGED <<codecVars, ratchetVars, macVars, noiseVars, queueVars, connVars, resumeVars, storeVars, primVars, inboundVars, beatVars, timersVars, logoutVars, preKeysVars>>

SpecReplay == InitReplay /\ [][NextReplay]_vars

InitLogout == LogoutInit /\ CodecIdle /\ RatchetIdle /\ MacIdle /\ NoiseIdle /\ QueueIdle /\ ConnIdle /\ ResumeIdle /\ StoreIdle /\ PrimIdle /\ InboundIdle /\ BeatIdle /\ TimersIdle /\ ReplayIdle /\ PreKeysIdle

NextLogout ==
    \/ LoInitialize /\ UNCHANGED <<codecVars, ratchetVars, macVars, noiseVars, queueVars, connVars, resumeVars, storeVars, primVars, inboundVars, beatVars, timersVars, replayVars, preKeysVars>>
    \/ LoOpen /\ UNCHANGED <<codecVars, ratchetVars, macVars, noiseVars, queueVars, connVars, resumeVars, storeVars, primVars, inboundVars, beatVars, timersVars, replayVars, preKeysVars>>
    \/ LoAuthTimer /\ UNCHANGED <<codecVars, ratchetVars, macVars, noiseVars, queueVars, connVars, resumeVars, storeVars, primVars, inboundVars, beatVars, timersVars, replayVars, preKeysVars>>
    \/ LoAuthenticated /\ UNCHANGED <<codecVars, ratchetVars, macVars, noiseVars, queueVars, connVars, resumeVars, storeVars, primVars, inboundVars, beatVars, timersVars, replayVars, preKeysVars>>
    \/ LoLogout /\ UNCHANGED <<codecVars, ratchetVars, macVars, noiseVars, queueVars, connVars, resumeVars, storeVars, primVars, inboundVars, beatVars, timersVars, replayVars, preKeysVars>>
    \/ LoClose /\ UNCHANGED <<codecVars, ratchetVars, macVars, noiseVars, queueVars, connVars, resumeVars, storeVars, primVars, inboundVars, beatVars, timersVars, replayVars, preKeysVars>>
    \/ LoReconnectTimer /\ UNCHANGED <<codecVars, ratchetVars, macVars, noiseVars, queueVars, connVars, resumeVars, storeVars, primVars, inboundVars, beatVars, timersVars, replayVars, preKeysVars>>

SpecLogout == InitLogout /\ [][NextLogout]_vars

InitPreKeys == PreKeysInit /\ CodecIdle /\ RatchetIdle /\ MacIdle /\ NoiseIdle /\ QueueIdle /\ ConnIdle /\ ResumeIdle /\ StoreIdle /\ PrimIdle /\ InboundIdle /\ BeatIdle /\ TimersIdle /\ ReplayIdle /\ LogoutIdle

NextPreKeys ==
    \/ (\E keys \in SUBSET KeyIds \ {{}} : PkStorePreKeys(keys)) /\ PreKeysBound' /\ UNCHANGED <<codecVars, ratchetVars, macVars, noiseVars, queueVars, connVars, resumeVars, storeVars, primVars, inboundVars, beatVars, timersVars, replayVars, logoutVars>>
    \/ (\E keyId \in KeyIds : PkRemovePreKey(keyId)) /\ PreKeysBound' /\ UNCHANGED <<codecVars, ratchetVars, macVars, noiseVars, queueVars, connVars, resumeVars, storeVars, primVars, inboundVars, beatVars, timersVars, replayVars, logoutVars>>
    \/ (\E w \in 1 .. Len(pkWrites) : PkOpen(w)) /\ UNCHANGED <<codecVars, ratchetVars, macVars, noiseVars, queueVars, connVars, resumeVars, storeVars, primVars, inboundVars, beatVars, timersVars, replayVars, logoutVars>>
    \/ (\E w \in 1 .. Len(pkWrites) : PkWrite(w)) /\ UNCHANGED <<codecVars, ratchetVars, macVars, noiseVars, queueVars, connVars, resumeVars, storeVars, primVars, inboundVars, beatVars, timersVars, replayVars, logoutVars>>

SpecPreKeys == InitPreKeys /\ [][NextPreKeys]_vars

---------------------------------------------------------------------------
(* Claims on the codec                                                     *)

\* C1: for every Node of the codec grammar, decoding the bytes produced by
\* encoding the node yields a node equal to the original.
C1_RoundTrip ==
    (codecPc = "decoded" /\ strIn = Null) => (decoded.ok /\ decoded.val = node)

isJid(s) == s # Null /\ jidSepIndexOf(s) >= 0

\* C2: encoding a string of the form local@domain and decoding it yields the
\* identical string, also when the local part is empty.
C2_JidRoundTrip ==
    (codecPc = "decoded" /\ isJid(strIn)) => (decoded.ok /\ decoded.val = strIn)

---------------------------------------------------------------------------
(* Claims on the ratchet                                                   *)

\* C3: with the receiving chain key equal to the sender's sending chain key
\* before the first message, every message produced by encrypt and presented
\* with the counter encrypt returned is decrypted to the original plaintext,
\* in order or out of order.
C3_RatchetRoundTrip ==
    \A i \in 1..Len(receivedLog) :
        (\E j \in 1..Len(sentLog) : sentLog[j].message = receivedLog[i].message)
        => receivedLog[i].plaintext = receivedLog[i].message.ciphertext.p

\* target is chainKey advanced zero or more times
chainReaches(chainKey, target) ==
    /\ Len(chainKey) <= Len(target)
    /\ SubSeq(target, 1, Len(chainKey)) = chainKey
    /\ \A k \in (Len(chainKey) + 1)..Len(target) : target[k] = 2

\* C5: a chain key is never stored after its successor has been derived:
\* once a message has been encrypted or decrypted, the state holds no sending
\* or receiving chain key from which that message's keys can be derived again.
C5_NoStaleChainKey ==
    /\ \A i \in 1..Len(sentLog) :
          ~chainReaches(senderState.sendingChainKey, sentLog[i].chainKey)
    /\ \A i \in 1..Len(receivedLog) :
          receivedLog[i].plaintext # Throw =>
            ~chainReaches(receiverState.receivingChainKey,
                          advanceChain(receivedLog[i].chainKey,
                                       receivedLog[i].message.counter))

\* C6: the chain advances on every send and on every receive: a successful
\* encrypt replaces the sending chain key by its successor and a successful
\* decrypt replaces the receiving chain key by a later one.
C6_ChainAdvances ==
    [][ /\ (Len(sentLog') > Len(sentLog) =>
              senderState'.sendingChainKey
                = generateNextChainKey(senderState.sendingChainKey))
        /\ ((Len(receivedLog') > Len(receivedLog)
              /\ receivedLog'[Len(receivedLog')].plaintext # Throw) =>
              /\ receiverState'.receivingChainKey # receiverState.receivingChainKey
              /\ chainReaches(receiverState.receivingChainKey,
                              receiverState'.receivingChainKey)) ]_vars

---------------------------------------------------------------------------
(* Claims on the MAC-protected ciphers                                     *)

\* C4: for every MAC-protected ciphertext an encrypt operation produced,
\* once any bit of its IV, of its ciphertext or of its tag differs from what
\* encrypt returned, the matching decrypt fails and returns no plaintext.
C4_TamperRejected ==
    (macOut # NoBuffer /\ macBlob # macSealed) => macOut = Throw

\* a message whose IV alone was changed has been rejected by decrypt
C4_Witness ==
    /\ macOut = Throw
    /\ macKind = "session"
    /\ macBlob.iv # macSealed.iv
    /\ macBlob.encrypted = macSealed.encrypted
    /\ macBlob.mac = macSealed.mac

---------------------------------------------------------------------------
(* Claims on the Noise handshake                                           *)

C30_grows == lastPrim.keyed /\ ~lastPrim.threw

C30_NonceCounter ==
    /\ lastPrim.op = "mixKey" => hs.n = 0
    /\ lastPrim.op \in {"encryptAndHash", "decryptAndHash"} =>
         hs.n = IF C30_grows THEN lastPrim.n + 1 ELSE lastPrim.n

\* a mixKey call made when two encryptions or decryptions had succeeded
\* under the previous cipher key
C30_Witness ==
    /\ lastPrim.op = "mixKey"
    /\ lastPrim.keyed
    /\ lastPrim.n = 2

---------------------------------------------------------------------------
(* Claims on the outbound queue                                            *)

\* C8: the queue releases at most one message per timer tick, in FIFO
\* order, and two consecutive dequeues are at least rateLimitDelay apart.
C8_RateLimitedFifo ==
    /\ [](/\ \A i \in 1 .. Len(dequeueLog) : dequeueLog[i].item = i
          /\ \A i \in 1 .. (Len(dequeueLog) - 1) :
               dequeueLog[i + 1].at - dequeueLog[i].at >= rateLimitDelay)
    /\ [][ /\ Len(dequeueLog') <= Len(dequeueLog) + 1
           /\ Len(dequeueLog') = Len(dequeueLog) + 1 =>
                /\ rateLimitQueue # <<>>
                /\ dequeueLog'[Len(dequeueLog')].item = Head(rateLimitQueue)
                /\ rateLimitQueue' = Tail(rateLimitQueue) ]_vars

\* two messages have been dequeued while a third is still waiting
C8_Witness ==
    /\ Len(dequeueLog) >= 2
    /\ rateLimitQueue # <<>>

\* C9: messages are handed to the socket in the order they were submitted.
C9_SocketOrder ==
    \A i, j \in 1 .. Len(socketLog) : i < j => socketLog[i] < socketLog[j]

\* two messages have reached the socket, with an earlier one that did not
C9_Witness ==
    /\ Len(socketLog) >= 2
    /\ \E i \in 1 .. Len(outcome) : outcome[i] = "rejected"

\* C10: once destroy() has run and every started send has settled, no
\* request that was submitted is still pending: those that were waiting in
\* the queue have been rejected.
C10_DestroyRejectsPending ==
    (coreState = "DESTROYED" /\ inflight = <<>>) =>
        \A i \in 1 .. Len(outcome) : outcome[i] # "pending"

\* the items of a log are pairwise different
C34_once(items) ==
    \A i, j \in 1 .. Len(items) : i # j => items[i] # items[j]

C34_dequeued == [i \in 1 .. Len(dequeueLog) |-> dequeueLog[i].item]

C34_running == [i \in 1 .. Len(inflight) |-> inflight[i].item]

\* C34: every item is dequeued at most once, its send is executed at most
\* once (one continuation, one hand-over to the socket), an item that was
\* dequeued is never in the queue again, only a dequeued item is settled,
\* and a settled promise is never settled again.
C34_ConsumedOnce ==
    /\ [](/\ C34_once(C34_dequeued)
          /\ C34_once(socketLog)
          /\ C34_once(C34_running)
          /\ C34_once(rateLimitQueue)
          /\ \A q \in 1 .. Len(rateLimitQueue) :
                 /\ \A i \in 1 .. Len(dequeueLog) :
                        dequeueLog[i].item # rateLimitQueue[q]
                 /\ outcome[rateLimitQueue[q]] = "pending"
          /\ \A i \in 1 .. Len(inflight) :
                 outcome[inflight[i].item] = "pending"
          /\ \A i \in 1 .. Len(outcome) :
                 outcome[i] # "pending" =>
                     \E d \in 1 .. Len(dequeueLog) : dequeueLog[d].item = i)
    /\ [][ \A i \in 1 .. Len(outcome) :
               outcome[i] # "pending" => outcome'[i] = outcome[i] ]_vars

\* every item submitted was dequeued, two were sent and all are settled
C34_Witness ==
    /\ Len(outcome) = MaxMessages
    /\ Len(dequeueLog) = MaxMessages
    /\ Len(socketLog) >= 2
    /\ \A i \in 1 .. Len(outcome) : outcome[i] # "pending"

---------------------------------------------------------------------------
(* Claims on the connection lifecycle                                      *)

\* C11: once destroy() has been called, no step schedules a reconnect (a
\* timer of the client or of the core) and no step creates a socket: the
\* close that destroy() causes and the timers pending at that moment
\* included.
C11_DestroyStopsReconnect ==
    destroyCalled => did \cap {"create", "schedule", "coreSchedule"} = {}

\* C12: once destroy() has set the state to DESTROYED, the state stays
\* DESTROYED whatever socket event, timer or message follows.
C12_DestroyedIsTerminal ==
    destroyCalled => state = "DESTROYED"

\* C13: the delay set before reconnect attempt k is
\* min(1000 * 2^(k-1), 30000): 1000, 2000, 4000, 8000, 16000 and 30000 for
\* k = 1..6, and 30000 from there on; the client of
\* final-production-client.js and WebSocketHandler compute the same delay
\* for the same k.
C13_Table == <<1000, 2000, 4000, 8000, 16000, 30000>>

C13_BackoffDelays ==
    lastDelay[1] >= 1 =>
        /\ lastDelay[2] = IF lastDelay[1] <= 6 THEN C13_Table[lastDelay[1]]
                          ELSE 30000
        /\ handleDisconnectDelay(lastDelay[1]) = lastDelay[2]
        /\ handlerReconnectDelay(lastDelay[1]) = lastDelay[2]

C13_Witness == lastDelay = <<6, 30000>> /\ reconnectTimers > 0

\* C14: once the client has given up ('reconnect_failed': a close or a
\* failed attempt found reconnectAttempts at maxReconnectAttempts), no later
\* step schedules a reconnect or creates a socket, until initialize() is
\* called again.
C14_MaxAttemptsIsTerminal ==
    [][(gaveUp /\ gaveUp') =>
           did' \cap {"create", "schedule", "coreSchedule"} = {}]_vars

\* C15: the connect() call of initialize() reports failure only after as
\* many sockets failed under it as the rotation list has endpoints.
C15_ConnectTriesEveryEndpoint ==
    initResult = "rejected" => connectFailures >= endpoints

\* C16: at most one socket is connecting or open, and at most one
\* reconnect (a timer of the client or of the core) is pending.
C16_OneSocketOneReconnect ==
    /\ Cardinality(live(socks)) <= 1
    /\ reconnectTimers + closeTimers + retryTimers <= 1

---------------------------------------------------------------------------
(* Claims on session resume                                                *)

\* C17: whenever a resume attempt has failed (restoreKeys threw, connect
\* or send threw, or the server answered the resume message with
\* 'failure'), the fresh authentication flow has been started
\* (_startFreshAuth was called).
C17_ResumeFallsBack ==
    rsResumeFailure # "none" => rsFreshCalled

\* C35: a step that takes the client into CONNECTED, or makes it ready, is
\* the handling of a 'success' stanza the server sent in answer to a resume
\* message or an authentication.
C35_OnlyServerSuccessAuthenticates ==
    [][ ((rsState' = "CONNECTED" /\ rsState # "CONNECTED")
           \/ (rsIsReady' /\ ~rsIsReady))
        => RsServerSuccess ]_vars

\* isClientReady()
isClientReady == rsIsReady /\ rsState = "CONNECTED"

\* C36: whenever isClientReady() is true, the transport is connected.
C36_ReadyImpliesConnected == isClientReady => rsWsOpen

---------------------------------------------------------------------------
(* Claims on the session store                                             *)

\* the record a file content holds for a store with this key, when it
\* holds one that has a clientId
C18_recordOf(c, key) ==
    IF c.kind = "json" \/ (c.kind = "blob" /\ c.key = key /\ c.intact)
    THEN c.rec ELSE NoRec

C19_OldOrNew ==
    saveCtx.active => files[sessionPath] \in {saveCtx.old, saveCtx.new}

C19_Witness ==
    /\ saveCtx.active
    /\ crashes > 0
    /\ files[tempPath].kind = "partial"
    /\ files[sessionPath] = saveCtx.old
    /\ saveCtx.old.kind = "blob"

\* C20: a load() of a file whose content does not pass the authenticated
\* decryption under the key of the store returns none.
C20_NoLoadPastFailedDecryption ==
    (lastLoad.done /\ ~(/\ lastLoad.content.kind = "blob"
                        /\ lastLoad.content.key = encryptionKey
                        /\ lastLoad.content.intact))
    => ~lastLoad.returned

\* C21: a load() that read the complete, unmodified file a save() wrote,
\* holding a record with a clientId that is not older than 30 days, returns
\* that record (with the lastUpdated save() gave it), whichever store
\* instance wrote it and whether the key came from the environment or was
\* generated.
C21_PersistsAcrossRestart ==
    (/\ lastLoad.done
     /\ lastLoad.content.kind = "blob"
     /\ lastLoad.content.intact
     /\ lastLoad.content.rec.clientId
     /\ lastLoad.at - lastLoad.content.rec.lastUpdated <= 30 * 24 * 60 * 60)
    => (lastLoad.returned /\ lastLoad.rec = lastLoad.content.rec)

\* C22: when a logout() has returned, of WhatsAppCore or of the client of
\* final-production-client.js, the session file does not exist, whether
\* or not the logout message could be sent.
C22_LogoutDeletesSession ==
    logoutLog.done => files[sessionPath].kind = "absent"

\* C25: clear() never throws, also when the session file is absent; after
\* two or more clear() calls the session file, sessionData and isLoaded are
\* as the first call left them: no file, no session, not loaded; and a
\* load() completed after a clear() returned none.
C25_ClearIdempotent ==
    clearLog.n >= 1 =>
        /\ ~clearLog.threw
        /\ <<files[sessionPath], sessionData, isLoaded>> = clearLog.after
        /\ clearLog.after = <<Absent, NoRec, FALSE>>
        /\ (lastLoad.done => ~lastLoad.returned)

C25_Witness ==
    /\ clearLog.n = 2
    /\ lastLoad.done
    /\ lastLoad.content.kind = "absent"
    /\ crashes = 0

---------------------------------------------------------------------------
(* Claims on the parts of the codec                                        *)

\* the bytes after the node header declare, by a raw length, a list size
\* or a packed length, more than the bytes that follow
C23_overrun(t) ==
    \/ /\ Len(t) >= 2
       /\ t[1] \in {WATags.BINARY_8, WATags.LIST_8}
       /\ t[2] > Len(t) - 2
    \/ /\ Len(t) >= 2
       /\ t[1] = WATags.NIBBLE_8
       /\ t[2] % 128 > Len(t) - 2
    \/ /\ Len(t) >= 4
       /\ t[1] = WATags.BINARY_20
       /\ (t[2] % 16 # 0 \/ t[3] # 0 \/ t[4] > Len(t) - 4)
    \/ /\ Len(t) >= 5
       /\ t[1] = WATags.BINARY_32
       /\ (t[2] # 0 \/ t[3] # 0 \/ t[4] # 0 \/ t[5] > Len(t) - 5)

\* C23: when whatsappReadBinary has run on a byte sequence, the read
\* position lies between 0 and the length of the buffer, and when the
\* content of the node declared a raw length (8-, 20- or 32-bit), a list
\* size or a packed length larger than the bytes remaining, decoding
\* failed.
C23_RejectsOverrun ==
    (primJob = "frame" /\ primPc = "read") =>
        /\ primRead.idx >= 0 /\ primRead.idx <= Len(primBytes)
        /\ (Len(primBytes) > Len(FrameHead)
            /\ C23_overrun(SubSeq(primBytes, Len(FrameHead) + 1, Len(primBytes)))
            => ~primRead.ok)

\* the raw-length prefix of a content of L bytes
C26_prefix(L) ==
    IF L < 256 THEN <<252, L>>
    ELSE IF L < 1048576
      THEN <<253, L \div 65536, (L \div 256) % 256, L % 256>>
    ELSE <<254, L \div 16777216, (L \div 65536) % 256, (L \div 256) % 256,
           L % 256>>

\* what C26 says of a written string str and of a written Buffer length
C26_form(str) ==
    IF IndexOf(str) # -1
      THEN primOut = <<IndexOf(str)>>
      ELSE /\ primOut = C26_prefix(Len(str)) \o str
           /\ primPc = "read" => (primRead.ok /\ primRead.val = str)

C26_lengthForm ==
    /\ primOut = C26_prefix(primLen)
    /\ primPc = "read" => (primRead.ok /\ primRead.val = primLen)

\* String.prototype.indexOf("@") >= 1
C26_isJid(str) == \E k \in 2..Len(str) : str[k] = 64

C27_EmptyChildrenAsAbsent ==
    (/\ codecPc = "encoded" /\ strIn = Null
     /\ node.content = Children(<<>>)) =>
        wire = whatsappWriteBinary([node EXCEPT !.content = NoContent])

\* every byte of str packs as a decimal nibble / as a hex nibble
C28_decimal(str) ==
    \A k \in 1..Len(str) : str[k] \in (48..57) \cup {45, 46}
C28_hex(str) ==
    \A k \in 1..Len(str) : str[k] \in (48..57) \cup (65..70) \cup (97..102)

\* C28: writePackedBytes does not throw; a string every character of which
\* is a decimal nibble is written nibble-packed; otherwise, when every
\* character is a hex digit, hex-packed; otherwise raw; and the output is
\* that one encoding: its tag first, its length as that encoding has it,
\* and the string read back from it.
C28_PackedFallback ==
    (primJob = "pack" /\ primPc # "in") =>
        /\ ~primThrew
        /\ primOut[1] = (IF C28_decimal(primBytes) THEN WATags.NIBBLE_8
                         ELSE IF C28_hex(primBytes) THEN WATags.HEX_8
                         ELSE WATags.BINARY_8)
        /\ Len(primOut) = (IF C28_decimal(primBytes) \/ C28_hex(primBytes)
                           THEN 2 + (Len(primBytes) + 1) \div 2
                           ELSE 2 + Len(primBytes))
        /\ primPc = "read" => primRead.ok

---------------------------------------------------------------------------
(* Further claims on the ratchet                                           *)

\* the chain-advance steps the decrypt call of a log entry made: each step
\* appends one label to the chain key
C29_steps(e) ==
    Len(advanceChain(e.chainKey, e.message.counter)) - Len(e.chainKey)

\* C29: the number of chain-advance steps of a decrypt call has a maximum
\* that the sender of the message does not choose: no call makes as many
\* steps as MaxForgedCounter, the counter the network writes on a message.
C29_BoundedSkip ==
    \A i \in 1..Len(receivedLog) :
        C29_steps(receivedLog[i]) < MaxForgedCounter

---------------------------------------------------------------------------
(* Claims on inbound frames                                                *)

\* a byte that is no tag and no token index: 1 is not in WATags, and the
\* table of single-byte tokens ends below 176
C24_invalidTag(b) ==
    \/ b = 1
    \/ b >= Len(WASingleByteTokens) /\ b <= 235

\* the frame announces a content and ends before it, announces more bytes
\* than follow, or starts the content with an invalid tag or token index
C24_malformed(f) ==
    /\ f.size = 2
    /\ \/ f.tail = <<>>
       \/ C23_overrun(f.tail)
       \/ C24_invalidTag(f.tail[1])

\* C24: for a malformed inbound frame no protocol handler runs, nothing is
\* sent, and state and readiness of the core are what they were before the
\* frame; a frame that is not malformed is dispatched by its tag, also
\* when malformed frames came before it.
C24_MalformedFrameDropped ==
    \A i \in 1..Len(inLog) :
        IF C24_malformed(inLog[i].frame)
          THEN /\ inLog[i].handler = "none"
               /\ ~inLog[i].receipt
               /\ inLog[i].after = inLog[i].before
          ELSE inLog[i].handler \in
                   { "none", handleProtocolMessage(inLog[i].frame.tag),
                     handleProtoMessage(inLog[i].frame.tag) }

---------------------------------------------------------------------------
(* Claims on the heartbeat                                                 *)

\* ping k got its pong within the pong timeout (a pong handled at the
\* very end of the timeout came before the timer callback)
C32_answered(k) ==
    /\ bPings[k].pongAt # -1
    /\ bPings[k].pongAt <= bPings[k].at + pongTimeoutDelay

\* ping k has been without pong for the whole pong timeout
C32_overdue(k) ==
    /\ ~C32_answered(k)
    /\ \/ bClock > bPings[k].at + pongTimeoutDelay
       \/ /\ bClock = bPings[k].at + pongTimeoutDelay
          /\ \A t \in bTimers : t.due > bClock

\* C32: a socket is terminated by the heartbeat only when one of its pings
\* stayed without pong for the pong timeout; when a ping on an open
\* transport has stayed without pong for the pong timeout, its socket is
\* terminated or closed; and once the close handler has run for the socket
\* the client holds (isConnected false), no heartbeat timer is left.
C32_PongTimeout ==
    /\ \A x \in bTerms :
         \E k \in 1..Len(bPings) :
             /\ bPings[k].sock = x.sock
             /\ bPings[k].at + pongTimeoutDelay <= x.at
             /\ ~C32_answered(k)
    /\ \A k \in 1..Len(bPings) :
         C32_overdue(k) => bSocks[bPings[k].sock] \in {"terminated", "closed"}
    /\ (bWs # 0 /\ bSocks[bWs] = "closed" /\ ~bConnected) => bTimers = {}

---------------------------------------------------------------------------
(* Claims on destroy() and the timers                                      *)

\* C33: once destroy() has returned, no timer of the client fires: not the
\* heartbeat, the ping interval, the pong timeout, the queue tick, a
\* reconnect timer or the QR refresh timer.
C33_DestroyCancelsTimers == tmDestroyed => tmFired = {}

---------------------------------------------------------------------------
(* Claims on the event queue of the client wrapper                         *)

\* C37: no call of _processEventQueue waits for the promise of a queue
\* entry, which only a call of _processEventQueue can settle; this is what
\* every queued send being settled once the client is ready rests on.
C37_ReplayNeverWaitsOnItself ==
    \A l \in 1 .. Len(rpLoops) : rpLoops[l].awaits[1] # "entry"

---------------------------------------------------------------------------
(* Claims on logout                                                        *)

\* C38: from a logout() until a caller calls initialize() again the client
\* stays logged out: no close of the socket has armed a reconnect timer,
\* and the client is neither ready nor CONNECTED.
C38_StaysLoggedOut ==
    loLoggedOut =>
        /\ ~loScheduled
        /\ ~loIsReady
        /\ loState # "CONNECTED"

\* C39: when a save() and a setField() on the same store overlap, neither
\* throws (no rename finds the temporary file gone), and once both have
\* returned the session file holds a complete encrypted record, the record
\* this.sessionData holds.
C39_bothReturned ==
    /\ noCallInProgress
    /\ saveCtx.active
    /\ saveCtx.new.rec.who = "setField"

C39_OverlappingSaves ==
    /\ [][\A p \in Procs :
            (ops[p].op = "save" /\ ops[p].pc = "rename" /\ ops'[p].op = "idle")
                => fileExists(tempPath)]_vars
    /\ [](C39_bothReturned =>
            /\ files[sessionPath].kind = "blob"
            /\ files[sessionPath].rec = sessionData)

---------------------------------------------------------------------------
(* Claims on the pre-key store                                             *)

\* C40: once every file write that storePreKeys and removePreKey started
\* has finished, prekeys.json is the JSON text of exactly the pre-keys in
\* this.preKeys.
C40_allWritten ==
    /\ pkWrites # <<>>
    /\ \A w \in 1 .. Len(pkWrites) : pkWrites[w].pc = "closed"

C40_FileHoldsPreKeys ==
    C40_allWritten => preKeysFile = [keys |-> preKeys, json |-> TRUE]

=============================================================================
